---------------------------- MODULE Spec2Model ----------------------------
(***************************************************************************)
(* Model of the estimation core of vertigrow_ai (src/ml_models.py):        *)
(* the VerticalFarmingAI object, its one-shot training in the constructor  *)
(* and its two inference operations recommend_crops and predict_yield.     *)
(*                                                                         *)
(* Representation of numbers.  Python floats are modelled by integers in   *)
(* a fixed unit, chosen so that every value the model uses is a dyadic     *)
(* rational (exactly representable as a float, so round() is exact         *)
(* round-half-to-even on it):                                              *)
(*   area_size, predicted_yield, predicted_growth_time : eighths           *)
(*   yield_kg_per_sqm, total_yield_kg                   : hundredths       *)
(*   confidence (reported)                              : hundredths of %  *)
(*   harvests_per_year                                  : tenths           *)
(*   growth_time_days, budget, temp, humidity           : units            *)
(* A class probability is the pair (count, LeafSamples).                   *)
(***************************************************************************)
EXTENDS Integers, Sequences, FiniteSets, TLC

VARIABLES
    pc,                     \* position of the constructor's _train_models
    crop_recommender,       \* "None" | "unfitted" | "fitted"
    yield_predictor,        \* "None" | "unfitted" | "fitted"
    growth_time_predictor,  \* "None" | "unfitted" | "fitted"
    label_encoders,         \* keys of self.label_encoders
    scalers,                \* keys of self.scalers
    crop_names,             \* self.crop_names
    call,                   \* the last inference call and its arguments
    ret,                    \* what that call returned (or raised)
    trace,                  \* the locals of that call the claims speak about
    confidence,             \* argument of a direct _get_suitability_level call
    suitability,            \* its result
    caller_args,            \* the caller's two dicts when the call returns
    tree,                   \* the fitted classifier as a function of its input
    forest,                 \* the fitted regressors as a function of their input
    threads,                \* the request threads inside an inference call
    scratch,                \* the input array built last, by any thread
    history,                \* the first result returned for each call made
    response,               \* what requests.get answered or raised
    weather,                \* what get_weather_data returned for it
    gen,                    \* position of get_training_data's generators
    sample,                 \* the sample appended last
    factors,                \* the locals of the yield sample appended last
    features,               \* the features dict predict_yield built last
    heap,                   \* the entry dicts built so far, by identity
    plan,                   \* each request's recommendation list
    layout                  \* what generate_layout_suggestions built last

vars == <<pc, crop_recommender, yield_predictor, growth_time_predictor,
          label_encoders, scalers, crop_names, call, ret, trace,
          confidence, suitability, caller_args, tree, forest, threads,
          scratch, history, response, weather, gen, sample, factors,
          features, heap, plan, layout>>

model_vars == <<crop_recommender, yield_predictor, growth_time_predictor,
                label_encoders, scalers, crop_names>>

\* the fitted models as functions and the request threads
serving_vars == <<tree, forest, threads, scratch, history>>

\* src/weather_service.py
weather_vars == <<response, weather>>

\* src/data/crop_data.py
data_vars == <<gen, sample, factors>>

\* single requests: the features dict, the returned entries, the layout
request_vars == <<features, heap, plan, layout>>

aux_vars == <<serving_vars, weather_vars, data_vars, request_vars>>

-----------------------------------------------------------------------------
(* Bounds of the model *)

\* number of classes of the fitted classifier that the model keeps
NumClasses == 6

\* number of training samples in a leaf of the fitted decision tree
LeafSamples == 2

\* largest denominator of a confidence handed to _get_suitability_level
MaxDen == 20

-----------------------------------------------------------------------------
(* Python helpers *)

Max(a, b) == IF a >= b THEN a ELSE b

\* dict.get(key, default)
Get(d, k, default) == IF k \in DOMAIN d THEN d[k] ELSE default

\* round() of the exact rational n/d (d > 0) to an integer, ties to even
RoundHalfEven(n, d) ==
    LET q == n \div d
        r == n % d
    IN  IF 2 * r < d THEN q
        ELSE IF 2 * r > d THEN q + 1
        ELSE IF q % 2 = 0 THEN q ELSE q + 1

\* s[::-1]
Reverse(s) == [i \in 1..Len(s) |-> s[Len(s) + 1 - i]]

\* s[-5:]
Last5(s) == SubSeq(s, Max(1, Len(s) - 4), Len(s))

\* a numeric value and a non-numeric (string) value of a form field
Num(n) == [num |-> n]
Str(s) == [str |-> s]
IsNum(v) == "num" \in DOMAIN v

-----------------------------------------------------------------------------
(* Training data (src/data/crop_data.py) as the encoders see it *)

\* sorted keys of crop_profiles = classes_ of the fitted classifier and of
\* the 'crop' LabelEncoder (yield_profiles has the same keys)
SortedCropNames ==
    <<"Alfalfa Microgreens", "Anise", "Artichokes", "Arugula",
      "Arugula Microgreens", "Asian Greens", "Asparagus", "Baby Bok Choy",
      "Baby Lettuce", "Basil", "Bay Leaves", "Beans", "Beet Microgreens",
      "Beets", "Bell Peppers", "Blueberries", "Broccoli",
      "Broccoli Microgreens", "Brussels Sprouts", "Butter Lettuce",
      "Cabbage", "Cabbage Microgreens", "Carrots", "Cauliflower", "Celery",
      "Cherry Tomatoes", "Chervil", "Chia Microgreens", "Chili Peppers",
      "Chinese Cabbage", "Chives", "Cilantro", "Cilantro Microgreens",
      "Collard Greens", "Corn", "Cranberries", "Cucumbers", "Currants",
      "Daikon Radish", "Dill", "Eggplant", "Elderberries", "Endive",
      "Escarole", "Fennel", "Garlic", "Ginger", "Goji Berries",
      "Gooseberries", "Grapes", "Green Beans", "Herbs", "Hot Peppers",
      "Iceberg Lettuce", "Kale", "Kale Microgreens", "Kiwi", "Lavender",
      "Leeks", "Lemon Balm", "Lemon Thyme", "Lemons", "Lettuce", "Limes",
      "Marjoram", "Microgreens", "Mint", "Mizuna", "Mushrooms",
      "Mustard Greens", "Mustard Microgreens", "Oak Leaf Lettuce", "Okra",
      "Onions", "Oranges", "Oregano", "Parsley", "Passion Fruit",
      "Pea Microgreens", "Peas", "Peppermint", "Peppers", "Potatoes",
      "Radicchio", "Radish Microgreens", "Radishes", "Raspberries",
      "Red Lettuce", "Romaine Lettuce", "Rosemary", "Sage", "Scallions",
      "Shallots", "Snow Peas", "Spearmint", "Spinach", "Strawberries",
      "Sunflower Microgreens", "Sweet Peppers", "Sweet Potatoes",
      "Swiss Chard", "Tarragon", "Tatsoi", "Thai Basil", "Thyme",
      "Tomatoes", "Turnip Greens", "Turnips", "Watercress", "Wheatgrass",
      "Zucchini">>

\* LabelEncoder.classes_ (sorted unique values) of the categorical features
climate_zones == <<"cold", "temperate_dry", "temperate_humid",
                   "tropical_dry", "tropical_humid">>
water_levels == <<"high", "low", "medium">>
light_types == <<"artificial", "hybrid", "natural">>

categorical_features == <<"climate_zone", "water_availability", "light_access">>

\* classes_ of the encoder stored under a key of self.label_encoders
EncoderClasses(feature) ==
    CASE feature = "climate_zone" -> climate_zones
      [] feature = "water_availability" -> water_levels
      [] feature = "light_access" -> light_types
      [] feature = "crop" -> SortedCropNames

\* the classes_ of the classifier within the model's bound
crop_classes == SubSeq(SortedCropNames, 1, NumClasses)

-----------------------------------------------------------------------------
(* Construction: __init__ and _train_models *)

NoCall == [op |-> "none", crop |-> "", farm_params |-> <<>>, weather_data |-> <<>>]

NoEst == [yield_kg_per_sqm |-> 0, total_yield_kg |-> 0,
          growth_time_days |-> 0, harvests_per_year |-> 0]

NoRet == [kind |-> "none", recs |-> <<>>, est |-> NoEst, exc |-> "none"]

NoTrace == [path |-> "none", caught |-> "none", codes |-> <<>>,
            crop_encoded |-> -1, predicted_yield |-> 0,
            predicted_growth_time |-> 0]

NoConfidence == [n |-> 0, d |-> 1]

NoArgs == [farm_params |-> <<>>, weather_data |-> <<>>]

\* no fitted function, no thread: the program as one sequence of calls
ServingIdle ==
    /\ tree = <<>>
    /\ forest = <<>>
    /\ threads = <<>>
    /\ scratch = <<>>
    /\ history = <<>>

\* no weather lookup made
WeatherIdle == response = <<>> /\ weather = <<>>

\* no sample generated
DataIdle == gen = <<>> /\ sample = <<>> /\ factors = <<>>

\* no request made
RequestIdle == features = <<>> /\ heap = <<>> /\ plan = <<>> /\ layout = <<>>

\* __init__, lines 17-22: every field empty, training about to start
InitFields ==
    /\ pc = "get_training_data"
    /\ crop_recommender = "None"
    /\ yield_predictor = "None"
    /\ growth_time_predictor = "None"
    /\ label_encoders = {}
    /\ scalers = {}
    /\ crop_names = <<>>
    /\ call = NoCall
    /\ ret = NoRet
    /\ trace = NoTrace
    /\ confidence = NoConfidence
    /\ suitability = "none"
    /\ caller_args = NoArgs

Init == InitFields /\ ServingIdle /\ WeatherIdle /\ DataIdle /\ RequestIdle

\* a _train_models without its except clause: the failure leaves the
\* constructor and the import of the module
TrainingStepReraises(next_pc, raised) == pc' = IF raised THEN "raised" ELSE next_pc

\* each training routine guarded on its own: after a failure the next
\* statement runs
TrainingStepContinues(next_pc, raised) == pc' = next_pc

\* the except clause of _train_models: the failure is logged, training ends
TrainingStep(next_pc, raised) == pc' = IF raised THEN "ready" ELSE next_pc

\* line 31: get_training_data() returns or raises
GetTrainingData ==
    /\ pc = "get_training_data"
    /\ \E raised \in BOOLEAN : TrainingStep("encode_1", raised)
    /\ UNCHANGED <<model_vars, call, ret, trace, confidence, suitability,
                   caller_args, aux_vars>>

\* lines 57-60: one turn of the loop over the categorical features;
\* the encoder is stored only when fit_transform returned
FitLabelEncoder(i) ==
    /\ pc = IF i = 1 THEN "encode_1" ELSE IF i = 2 THEN "encode_2" ELSE "encode_3"
    /\ \E raised \in BOOLEAN :
         /\ TrainingStep(IF i = 1 THEN "encode_2"
                         ELSE IF i = 2 THEN "encode_3" ELSE "fit_classifier", raised)
         /\ label_encoders' = IF raised THEN label_encoders
                              ELSE label_encoders \cup {categorical_features[i]}
    /\ UNCHANGED <<crop_recommender, yield_predictor, growth_time_predictor,
                   scalers, crop_names, call, ret, trace, confidence, suitability,
                   caller_args, aux_vars>>

\* lines 63-71: crop_names and the classifier object are stored, then fit
\* returns or raises
FitCropRecommender ==
    /\ pc = "fit_classifier"
    /\ crop_names' = crop_classes
    /\ \E raised \in BOOLEAN :
         /\ TrainingStep("encode_crop", raised)
         /\ crop_recommender' = IF raised THEN "unfitted" ELSE "fitted"
    /\ UNCHANGED <<yield_predictor, growth_time_predictor, label_encoders,
                   scalers, call, ret, trace, confidence, suitability,
                   caller_args, aux_vars>>

\* lines 86-88: the crop encoder
FitCropEncoder ==
    /\ pc = "encode_crop"
    /\ \E raised \in BOOLEAN :
         /\ TrainingStep("fit_scaler", raised)
         /\ label_encoders' = IF raised THEN label_encoders
                              ELSE label_encoders \cup {"crop"}
    /\ UNCHANGED <<crop_recommender, yield_predictor, growth_time_predictor,
                   scalers, crop_names, call, ret, trace, confidence, suitability,
                   caller_args, aux_vars>>

\* lines 91-93: the scaler
FitScaler ==
    /\ pc = "fit_scaler"
    /\ \E raised \in BOOLEAN :
         /\ TrainingStep("fit_yield", raised)
         /\ scalers' = IF raised THEN scalers ELSE scalers \cup {"yield_features"}
    /\ UNCHANGED <<crop_recommender, yield_predictor, growth_time_predictor,
                   label_encoders, crop_names, call, ret, trace, confidence,
                   suitability, caller_args, aux_vars>>

\* lines 97-101: the yield regressor object is stored, then fit
FitYieldPredictor ==
    /\ pc = "fit_yield"
    /\ \E raised \in BOOLEAN :
         /\ TrainingStep("fit_growth", raised)
         /\ yield_predictor' = IF raised THEN "unfitted" ELSE "fitted"
    /\ UNCHANGED <<crop_recommender, growth_time_predictor, label_encoders,
                   scalers, crop_names, call, ret, trace, confidence, suitability,
                   caller_args, aux_vars>>

\* lines 105-109: the growth-time regressor object is stored, then fit
FitGrowthTimePredictor ==
    /\ pc = "fit_growth"
    /\ \E raised \in BOOLEAN :
         /\ TrainingStep("ready", raised)
         /\ growth_time_predictor' = IF raised THEN "unfitted" ELSE "fitted"
    /\ UNCHANGED <<crop_recommender, yield_predictor, label_encoders,
                   scalers, crop_names, call, ret, trace, confidence, suitability,
                   caller_args, aux_vars>>

-----------------------------------------------------------------------------
(* Inputs of the inference calls *)

\* the well-formed farm_params: area 3.0, every category seen in training
WellFormedFarm ==
    [area_size |-> Num(24), budget |-> 4000,
     water_availability |-> "medium", light_access |-> "artificial"]

\* farm_params: the well-formed dict, dicts with a category never seen in
\* training, with a zero or non-numeric area_size, and dicts that lack a key
FarmParams ==
    { WellFormedFarm,
      [area_size |-> Num(1), budget |-> 6000,
       water_availability |-> "brackish", light_access |-> "hybrid"],
      [area_size |-> Num(24), budget |-> 500,
       water_availability |-> "low", light_access |-> "neon"],
      [area_size |-> Num(0), budget |-> 4000,
       water_availability |-> "medium", light_access |-> "artificial"],
      [area_size |-> Str("abc"), budget |-> 4000,
       water_availability |-> "medium", light_access |-> "artificial"],
      [budget |-> 4000,
       water_availability |-> "medium", light_access |-> "artificial"],
      [area_size |-> Num(24),
       water_availability |-> "medium", light_access |-> "artificial"],
      [area_size |-> Num(24), budget |-> 4000, light_access |-> "artificial"] }

\* weather_data: a full reading and one that lacks 'temp'
FullWeather == [temp |-> 30, humidity |-> 80]
WeatherData == { FullWeather, [humidity |-> 60] }

\* the (farm_params, weather_data) pairs of the calls: every farm_params
\* with the full reading, the well-formed one with every weather_data
CallInputs ==
    { <<f, FullWeather>> : f \in FarmParams }
        \cup { <<WellFormedFarm, w>> : w \in WeatherData }

\* crop names: the one the crop encoder numbers 0, a trained one that the
\* default yield table lists, and one that no table lists
CropArgs == {"Alfalfa Microgreens", "Lettuce", "Dragonfruit"}

-----------------------------------------------------------------------------
(* What the fitted models may answer *)

RECURSIVE SumTo(_, _)
SumTo(p, n) == IF n = 0 THEN 0 ELSE p[n] + SumTo(p, n - 1)

\* predict_proba(X)[0] of a fitted tree: the class frequencies of the leaf
\* X falls in, as counts out of LeafSamples
ProbaOutcomes ==
    { p \in [1..NumClasses -> 0..LeafSamples] : SumTo(p, NumClasses) = LeafSamples }

\* np.argsort does not fix the order of equal elements
TieOrders == {"low_first", "high_first"}

\* predict(X)[0] of the fitted regressors, in eighths: an average of
\* training targets, which are >= 0.1 (yield) and >= 10 (growth days)
YieldPredictions == {1, 36}
GrowthTimePredictions == {80, 244, 800}

-----------------------------------------------------------------------------
(* Helpers of VerticalFarmingAI *)

_determine_climate_zone(weather_data) ==
    LET temp == Get(weather_data, "temp", 20)
        humidity == Get(weather_data, "humidity", 60)
    IN  IF temp < 10 THEN "cold"
        ELSE IF temp < 25
             THEN IF humidity > 70 THEN "temperate_humid" ELSE "temperate_dry"
             ELSE IF humidity > 70 THEN "tropical_humid" ELSE "tropical_dry"

\* the lookup falling back to the artificial level
LightIntensityDefaultArtificial(light_access) ==
    CASE light_access = "natural" -> 300
      [] light_access = "hybrid" -> 500
      [] OTHER -> 400

_calculate_light_intensity(light_access) ==
    CASE light_access = "natural" -> 300
      [] light_access = "artificial" -> 400
      [] light_access = "hybrid" -> 500
      [] OTHER -> 300

\* the thresholds compared with <= instead of <
NutrientsLevelInclusive(budget) ==
    IF budget <= 1000 THEN 5 ELSE IF budget <= 5000 THEN 7 ELSE 9

_estimate_nutrients_level(budget) ==
    IF budget < 1000 THEN 5 ELSE IF budget < 5000 THEN 7 ELSE 9

_get_water_frequency(water_availability) ==
    CASE water_availability = "low" -> 2
      [] water_availability = "medium" -> 4
      [] water_availability = "high" -> 6
      [] OTHER -> 3

\* the thresholds compared with >= instead of >
SuitabilityLevelInclusive(n, d) ==
    IF 10 * n >= 7 * d THEN "Excellent"
    ELSE IF 10 * n >= 5 * d THEN "Good"
    ELSE IF 10 * n >= 3 * d THEN "Fair"
    ELSE "Poor"

\* lines 286-295; confidence is the probability n/d
_get_suitability_level(n, d) ==
    IF 10 * n > 7 * d THEN "Excellent"
    ELSE IF 10 * n > 5 * d THEN "Good"
    ELSE IF 10 * n > 3 * d THEN "Fair"
    ELSE "Poor"

_get_default_recommendations ==
    << [crop |-> "Lettuce", confidence |-> 8500, suitability |-> "Excellent"],
       [crop |-> "Spinach", confidence |-> 8000, suitability |-> "Excellent"],
       [crop |-> "Kale", confidence |-> 7500, suitability |-> "Good"],
       [crop |-> "Herbs", confidence |-> 7000, suitability |-> "Good"],
       [crop |-> "Microgreens", confidence |-> 6500, suitability |-> "Good"] >>

\* the table looked up with default 0
BaseYieldsDefaultZero(crop) ==
    CASE crop = "Lettuce" -> 25
      [] crop = "Spinach" -> 20
      [] crop = "Kale" -> 15
      [] crop = "Herbs" -> 10
      [] crop = "Microgreens" -> 30
      [] crop = "Tomatoes" -> 40
      [] crop = "Peppers" -> 35
      [] crop = "Cucumbers" -> 45
      [] OTHER -> 0

\* lines 309-320: base_yields.get(crop, 20)
base_yields(crop) ==
    CASE crop = "Lettuce" -> 25
      [] crop = "Spinach" -> 20
      [] crop = "Kale" -> 15
      [] crop = "Herbs" -> 10
      [] crop = "Microgreens" -> 30
      [] crop = "Tomatoes" -> 40
      [] crop = "Peppers" -> 35
      [] crop = "Cucumbers" -> 45
      [] OTHER -> 20

\* lines 309-318: the keys of base_yields
base_yield_keys ==
    {"Lettuce", "Spinach", "Kale", "Herbs", "Microgreens", "Tomatoes",
     "Peppers", "Cucumbers"}

\* area_size is a number, in eighths
_get_default_yield_prediction(crop, area_size) ==
    [yield_kg_per_sqm |-> 100 * base_yields(crop),
     total_yield_kg |-> RoundHalfEven(100 * base_yields(crop) * area_size, 8),
     growth_time_days |-> 45,
     harvests_per_year |-> 81]

\* what the call of _get_default_yield_prediction(crop, farm_params['area_size'])
\* raises: the subscript fails on a missing key, round() on a str product
DefaultYieldError(farm_params) ==
    IF "area_size" \notin DOMAIN farm_params THEN "KeyError"
    ELSE IF ~IsNum(farm_params.area_size) THEN "TypeError"
    ELSE "none"

-----------------------------------------------------------------------------
(* LabelEncoder.transform as the two operations use it *)

Seen(classes, value) == \E i \in 1..Len(classes) : classes[i] = value

IndexOf(classes, value) == (CHOOSE i \in 1..Len(classes) : classes[i] = value) - 1

\* an encoder that gives an unseen value the next free code
EncodeFeatureNextCode(feature_name, value) ==
    IF feature_name \in label_encoders
    THEN IF Seen(EncoderClasses(feature_name), value)
         THEN IndexOf(EncoderClasses(feature_name), value)
         ELSE Len(EncoderClasses(feature_name))
    ELSE 0

\* an encoder that gives an unseen value the code of its last class
EncodeFeatureUnseenLast(feature_name, value) ==
    IF feature_name \in label_encoders
    THEN IF Seen(EncoderClasses(feature_name), value)
         THEN IndexOf(EncoderClasses(feature_name), value)
         ELSE Len(EncoderClasses(feature_name)) - 1
    ELSE 0

\* lines 132-140 and 195-201: the code of a value; 0 when the encoder is
\* missing and 0 when transform raises ValueError on an unseen value
EncodeFeature(feature_name, value) ==
    IF feature_name \in label_encoders
    THEN IF Seen(EncoderClasses(feature_name), value)
         THEN IndexOf(EncoderClasses(feature_name), value)
         ELSE 0
    ELSE 0

-----------------------------------------------------------------------------
(* recommend_crops, lines 113-177 *)

\* an instance handed out before its constructor has returned (training
\* moved to a background thread)
FarmingAiBoundWhileTraining == TRUE

\* lines 329-330 and src/routes.py line 4: the name farming_ai is bound, and
\* the import of routes can go on, when the constructor has returned
farming_ai_bound == pc = "ready"

\* an operation that stores the derived budget_per_sqm in the caller's dict
ArgsAfterCallStoresBudgetPerSqm(farm_params, weather_data) ==
    [farm_params |-> farm_params @@ [budget_per_sqm |-> 0],
     weather_data |-> weather_data]

\* lines 113-239: neither operation assigns to an item of farm_params or of
\* weather_data; the caller's dicts are what was passed
ArgsAfterCall(farm_params, weather_data) ==
    [farm_params |-> farm_params, weather_data |-> weather_data]

\* lines 117-127: the first exception that building the features dict
\* raises ("none" when it is built)
RecommendFeaturesError(farm_params) ==
    IF "water_availability" \notin DOMAIN farm_params THEN "KeyError"
    ELSE IF "light_access" \notin DOMAIN farm_params THEN "KeyError"
    ELSE IF "area_size" \notin DOMAIN farm_params THEN "KeyError"
    ELSE IF "budget" \notin DOMAIN farm_params THEN "KeyError"
    ELSE IF ~IsNum(farm_params.area_size) THEN "TypeError"
    ELSE IF farm_params.area_size.num = 0 THEN "ZeroDivisionError"
    ELSE "none"

\* lines 130-140: the codes of the three categorical features
RecommendCodes(farm_params, weather_data) ==
    << EncodeFeature("climate_zone", _determine_climate_zone(weather_data)),
       EncodeFeature("water_availability", farm_params.water_availability),
       EncodeFeature("light_access", farm_params.light_access) >>

\* predict_proba that answers before fit
PredictProbaNeverRaises == "none"

\* line 155: what predict_proba raises; the object of a failed fit is truthy
\* (a DecisionTreeClassifier defines neither __bool__ nor __len__) and its
\* predict_proba raises NotFittedError
PredictProbaError ==
    IF crop_recommender = "unfitted" THEN "NotFittedError" ELSE "none"

\* i comes before j in np.argsort(probabilities)
SortsBefore(probabilities, tie, i, j) ==
    \/ probabilities[i] < probabilities[j]
    \/ /\ probabilities[i] = probabilities[j]
       /\ IF tie = "low_first" THEN i <= j ELSE i >= j

RECURSIVE ArgsortOf(_, _, _)
ArgsortOf(probabilities, tie, S) ==
    IF S = {} THEN <<>>
    ELSE LET m == CHOOSE i \in S :
                      \A j \in S : SortsBefore(probabilities, tie, i, j)
         IN  <<m>> \o ArgsortOf(probabilities, tie, S \ {m})

\* np.argsort(probabilities): class indices by ascending probability
Argsort(probabilities, tie) ==
    ArgsortOf(probabilities, tie, DOMAIN probabilities)

\* the top indices without the reversal [::-1]
TopIndicesAscending(probabilities, tie) == Last5(Argsort(probabilities, tie))

\* line 159: np.argsort(probabilities)[-5:][::-1]
TopIndices(probabilities, tie) == Reverse(Last5(Argsort(probabilities, tie)))

\* line 167: round(confidence * 100, 2), in hundredths of a percent
ConfidencePercent(n, d) == RoundHalfEven(n * 10000, d)

\* lines 161-171: the list built from the top indices
Recommendations(probabilities, top_indices) ==
    [k \in 1..Len(top_indices) |->
        [crop |-> crop_classes[top_indices[k]],
         confidence |-> ConfidencePercent(probabilities[top_indices[k]], LeafSamples),
         suitability |-> _get_suitability_level(probabilities[top_indices[k]],
                                                LeafSamples)]]

\* every list the classifier path can build
ClassifierOutcomes ==
    { Recommendations(probabilities, TopIndices(probabilities, tie)) :
          probabilities \in ProbaOutcomes, tie \in TieOrders }

ListRet(recs) == [kind |-> "list", recs |-> recs, est |-> NoEst, exc |-> "none"]

RecommendTrace(path, caught, codes) ==
    [path |-> path, caught |-> caught, codes |-> codes, crop_encoded |-> -1,
     predicted_yield |-> 0, predicted_growth_time |-> 0]

RecommendCrops ==
    /\ farming_ai_bound
    /\ \E input \in CallInputs :
         LET farm_params == input[1]
             weather_data == input[2]
             err == RecommendFeaturesError(farm_params)
         IN  /\ call' = [op |-> "recommend_crops", crop |-> "",
                         farm_params |-> farm_params,
                         weather_data |-> weather_data]
             /\ caller_args' = ArgsAfterCall(farm_params, weather_data)
             /\ \/ \* lines 175-177: building the features raised
                   /\ err # "none"
                   /\ ret' = ListRet(_get_default_recommendations)
                   /\ trace' = RecommendTrace("static_except", err, <<>>)
                \/ \* lines 172-173: self.crop_recommender is None
                   /\ err = "none"
                   /\ crop_recommender = "None"
                   /\ ret' = ListRet(_get_default_recommendations)
                   /\ trace' = RecommendTrace("static_else", "none",
                                   RecommendCodes(farm_params, weather_data))
                \/ \* line 155: predict_proba of an unfitted tree raises
                   /\ err = "none"
                   /\ crop_recommender # "None"
                   /\ PredictProbaError # "none"
                   /\ ret' = ListRet(_get_default_recommendations)
                   /\ trace' = RecommendTrace("static_except", PredictProbaError,
                                   RecommendCodes(farm_params, weather_data))
                \/ \* lines 153-171: the classifier path
                   /\ err = "none"
                   /\ crop_recommender # "None"
                   /\ PredictProbaError = "none"
                   /\ \E recommendations \in ClassifierOutcomes :
                        ret' = ListRet(recommendations)
                   /\ trace' = RecommendTrace("classifier", "none",
                                   RecommendCodes(farm_params, weather_data))
    /\ UNCHANGED <<pc, model_vars, confidence, suitability, aux_vars>>

-----------------------------------------------------------------------------
(* predict_yield, lines 179-239 *)

\* lines 183-192: the first exception that building the features dict raises
YieldFeaturesError(farm_params) ==
    IF "area_size" \notin DOMAIN farm_params THEN "KeyError"
    ELSE IF "light_access" \notin DOMAIN farm_params THEN "KeyError"
    ELSE IF "budget" \notin DOMAIN farm_params THEN "KeyError"
    ELSE IF "water_availability" \notin DOMAIN farm_params THEN "KeyError"
    ELSE "none"

\* bool(estimator) of a RandomForestRegressor is len(estimator.estimators_):
\* false for None, AttributeError before fit, true after
BothFitted == yield_predictor = "fitted" /\ growth_time_predictor = "fitted"

\* line 224: what evaluating `self.yield_predictor and
\* self.growth_time_predictor` raises
TruthTestError ==
    IF yield_predictor = "unfitted" THEN "AttributeError"
    ELSE IF yield_predictor = "fitted" /\ growth_time_predictor = "unfitted"
         THEN "AttributeError"
    ELSE "none"

\* the first exception raised inside the try block, lines 181-235
YieldTryError(farm_params) ==
    IF YieldFeaturesError(farm_params) # "none"
    THEN YieldFeaturesError(farm_params)
    ELSE IF "yield_features" \in scalers /\ ~IsNum(farm_params.area_size)
         THEN "ValueError"            \* line 219: transform of a str array
    ELSE IF TruthTestError # "none" THEN TruthTestError
    ELSE IF BothFitted
         THEN IF IsNum(farm_params.area_size) THEN "none" ELSE "ValueError"
    ELSE DefaultYieldError(farm_params)   \* line 235, still inside try

\* line 229: max(0, round(predicted_yield, 2))
YieldKgPerSqm(predicted_yield) == Max(0, RoundHalfEven(100 * predicted_yield, 8))

\* the total without the factor area_size
TotalYieldKgNoArea(predicted_yield, area_size) ==
    Max(0, RoundHalfEven(100 * predicted_yield, 8))

\* line 230: max(0, round(predicted_yield * farm_params['area_size'], 2))
TotalYieldKg(predicted_yield, area_size) ==
    Max(0, RoundHalfEven(100 * predicted_yield * area_size, 64))

\* the growth time without its floor of 30 days
GrowthTimeDaysNoFloor(predicted_growth_time) ==
    RoundHalfEven(predicted_growth_time, 8)

\* line 231: max(30, round(predicted_growth_time))
GrowthTimeDays(predicted_growth_time) ==
    Max(30, RoundHalfEven(predicted_growth_time, 8))

\* the harvests computed from the rounded growth_time_days
HarvestsPerYearOfRoundedDays(predicted_growth_time) ==
    Max(10, RoundHalfEven(10 * 365,
                          Max(30, RoundHalfEven(predicted_growth_time, 8))))

\* line 232: max(1, round(365 / max(30, predicted_growth_time), 1))
HarvestsPerYear(predicted_growth_time) ==
    Max(10, RoundHalfEven(10 * 365 * 8, Max(30 * 8, predicted_growth_time)))

\* lines 228-233
TrainedYieldPrediction(predicted_yield, predicted_growth_time, area_size) ==
    [yield_kg_per_sqm |-> YieldKgPerSqm(predicted_yield),
     total_yield_kg |-> TotalYieldKg(predicted_yield, area_size),
     growth_time_days |-> GrowthTimeDays(predicted_growth_time),
     harvests_per_year |-> HarvestsPerYear(predicted_growth_time)]

EstRet(est) == [kind |-> "est", recs |-> <<>>, est |-> est, exc |-> "none"]

RaiseRet(exc) == [kind |-> "raise", recs |-> <<>>, est |-> NoEst, exc |-> exc]

YieldTrace(path, caught, crop_encoded, predicted_yield, predicted_growth_time) ==
    [path |-> path, caught |-> caught, codes |-> <<>>,
     crop_encoded |-> crop_encoded, predicted_yield |-> predicted_yield,
     predicted_growth_time |-> predicted_growth_time]

PredictYield ==
    /\ farming_ai_bound
    /\ \E crop \in CropArgs, input \in CallInputs :
         LET farm_params == input[1]
             weather_data == input[2]
             err == YieldTryError(farm_params)
             crop_encoded == IF YieldFeaturesError(farm_params) = "none"
                             THEN EncodeFeature("crop", crop) ELSE -1
         IN  /\ call' = [op |-> "predict_yield", crop |-> crop,
                         farm_params |-> farm_params,
                         weather_data |-> weather_data]
             /\ caller_args' = ArgsAfterCall(farm_params, weather_data)
             /\ \/ \* lines 225-233: both regressors predict
                   /\ err = "none"
                   /\ BothFitted
                   /\ \E predicted_yield \in YieldPredictions,
                         predicted_growth_time \in GrowthTimePredictions :
                        /\ ret' = EstRet(TrainedYieldPrediction(predicted_yield,
                                      predicted_growth_time,
                                      farm_params.area_size.num))
                        /\ trace' = YieldTrace("regressors", "none", crop_encoded,
                                      predicted_yield, predicted_growth_time)
                \/ \* lines 234-235: a regressor is None
                   /\ err = "none"
                   /\ ~BothFitted
                   /\ ret' = EstRet(_get_default_yield_prediction(crop,
                                      farm_params.area_size.num))
                   /\ trace' = YieldTrace("static_else", "none", crop_encoded, 0, 0)
                \/ \* lines 237-239: the handler returns the default
                   /\ err # "none"
                   /\ DefaultYieldError(farm_params) = "none"
                   /\ ret' = EstRet(_get_default_yield_prediction(crop,
                                      farm_params.area_size.num))
                   /\ trace' = YieldTrace("static_except", err, crop_encoded, 0, 0)
                \/ \* line 239: the handler itself raises
                   /\ err # "none"
                   /\ DefaultYieldError(farm_params) # "none"
                   /\ ret' = RaiseRet(DefaultYieldError(farm_params))
                   /\ trace' = YieldTrace("raised", err, crop_encoded, 0, 0)
    /\ UNCHANGED <<pc, model_vars, confidence, suitability, aux_vars>>

-----------------------------------------------------------------------------
(* The program: construction, then any number of inference calls *)

Next ==
    \/ GetTrainingData
    \/ \E i \in 1..3 : FitLabelEncoder(i)
    \/ FitCropRecommender
    \/ FitCropEncoder
    \/ FitScaler
    \/ FitYieldPredictor
    \/ FitGrowthTimePredictor
    \/ RecommendCrops
    \/ PredictYield

Spec == Init /\ [][Next]_vars

-----------------------------------------------------------------------------
(* _get_suitability_level as a function of its argument alone *)

GetSuitabilityLevel ==
    /\ \E d \in 1..MaxDen, n \in 0..MaxDen :
         /\ n <= d
         /\ confidence' = [n |-> n, d |-> d]
         /\ suitability' = _get_suitability_level(n, d)
    /\ UNCHANGED <<pc, model_vars, call, ret, trace, caller_args, aux_vars>>

SuitabilitySpec == Init /\ [][GetSuitabilityLevel]_vars

-----------------------------------------------------------------------------
(* Properties *)

IsRecommend == call.op = "recommend_crops"
IsPredict == call.op = "predict_yield"
Area == call.farm_params.area_size.num

\* the fixed list of _get_default_recommendations, written out
StaticRanking ==
    << [crop |-> "Lettuce", confidence |-> 8500, suitability |-> "Excellent"],
       [crop |-> "Spinach", confidence |-> 8000, suitability |-> "Excellent"],
       [crop |-> "Kale", confidence |-> 7500, suitability |-> "Good"],
       [crop |-> "Herbs", confidence |-> 7000, suitability |-> "Good"],
       [crop |-> "Microgreens", confidence |-> 6500, suitability |-> "Good"] >>

\* C1: for every input and in every model state, recommend_crops returns a
\* non-empty list of at most 5 entries whose confidence values are in
\* non-increasing order.
C1_RecommendNonEmptySorted ==
    IsRecommend =>
        /\ ret.kind = "list"
        /\ Len(ret.recs) \in 1..5
        /\ \A i \in 1..(Len(ret.recs) - 1) :
               ret.recs[i].confidence >= ret.recs[i + 1].confidence

\* a classifier-path answer to a query with an unseen water level: five
\* entries, the first strictly more confident than the last
C1_Witness ==
    /\ IsRecommend
    /\ trace.path = "classifier"
    /\ call.farm_params.water_availability = "brackish"
    /\ Len(ret.recs) = 5
    /\ ret.recs[1].confidence > ret.recs[5].confidence

\* C2: predict_yield never propagates an exception to its caller: for every
\* crop, farm_params and weather_data, in every model state, it returns a
\* result with the four fields.
C2_PredictYieldNeverRaises ==
    IsPredict => ret.kind = "est"

\* C3: every result returned by predict_yield, on the trained path and on
\* the fallback path, for any crop name, has growth_time_days >= 30 and
\* yield_kg_per_sqm >= 0.
C3_GrowthAndYieldFloors ==
    (IsPredict /\ ret.kind = "est") =>
        /\ ret.est.growth_time_days >= 30
        /\ ret.est.yield_kg_per_sqm >= 0

\* the regressors predict 10 days for a crop that no table lists and the
\* result reports 30
C3_Witness ==
    /\ IsPredict
    /\ call.crop = "Dragonfruit"
    /\ trace.path = "regressors"
    /\ trace.predicted_growth_time = 80
    /\ ret.est.growth_time_days = 30

\* C4: whenever the classifier is not trained (crop_recommender is None, or
\* its fit raised so the object is unfitted), recommend_crops returns exactly
\* the fixed static list, independent of the inputs, and does not raise.
C4_UntrainedClassifierStaticList ==
    (IsRecommend /\ crop_recommender # "fitted") =>
        /\ ret.kind = "list"
        /\ ret.recs = StaticRanking

\* the classifier object is left unfitted by a failed fit and a well-formed
\* query gets the static list
C4_Witness ==
    /\ IsRecommend
    /\ crop_recommender = "unfitted"
    /\ call.farm_params = WellFormedFarm
    /\ trace.caught = "NotFittedError"
    /\ ret.recs = StaticRanking

\* C5: whenever at least one of the two regressors is missing or unfitted,
\* predict_yield returns the static fallback: yield_kg_per_sqm from the
\* default table (20 for a name not in it), total_yield_kg = round(that
\* yield * area_size, 2), growth_time_days = 45, harvests_per_year = 8.1.
C5_UntrainedRegressorsStaticFallback ==
    (IsPredict /\ ~BothFitted) =>
        /\ ret.kind = "est"
        /\ ret.est.yield_kg_per_sqm =
               (IF call.crop = "Lettuce" THEN 2500 ELSE 2000)
        /\ ret.est.total_yield_kg =
               RoundHalfEven(ret.est.yield_kg_per_sqm * Area, 8)
        /\ ret.est.growth_time_days = 45
        /\ ret.est.harvests_per_year = 81

\* the crop argument is not among the crops the estimator was trained on
UntrainedCrop == ~Seen(SortedCropNames, call.crop)

\* C6 as stated: in every model state, when predict_yield is called with a
\* crop name that is not among the trained crops, yield_kg_per_sqm of the
\* result is the default table value for the name, or 20 when the name is in
\* no table.
C6_UnknownCropGetsTableEntry ==
    (IsPredict /\ UntrainedCrop /\ ret.kind = "est") =>
        ret.est.yield_kg_per_sqm = 2000

\* C6 amended: for an untrained crop name the result is the default table
\* entry (20, no table lists an untrained name) when a regressor is missing
\* or unfitted or a step of the prediction raises; when both regressors are
\* fitted and no step raises, the name is encoded as crop code 0 and the
\* result is the regressors' prediction.
C6_UnknownCropCodeZeroOrTable ==
    (IsPredict /\ UntrainedCrop /\ ret.kind = "est") =>
        /\ (~BothFitted \/ trace.caught # "none") =>
               /\ ret.est.yield_kg_per_sqm = 2000
               /\ ret.est.growth_time_days = 45
        /\ (BothFitted /\ trace.caught = "none") =>
               /\ trace.path = "regressors"
               /\ trace.crop_encoded = 0
               /\ 8 * ret.est.yield_kg_per_sqm - 100 * trace.predicted_yield \in -4..4

\* both regressors fitted, an untrained name: code 0 and a predicted yield
\* of 4.5 instead of the table's 20
C6_Witness ==
    /\ IsPredict
    /\ call.crop = "Dragonfruit"
    /\ BothFitted
    /\ trace.crop_encoded = 0
    /\ ret.est.yield_kg_per_sqm = 450

\* the query is well formed apart from its categories
FeaturesBuilt == RecommendFeaturesError(call.farm_params) = "none"

UnseenWater == ~Seen(water_levels, call.farm_params.water_availability)
UnseenLight == ~Seen(light_types, call.farm_params.light_access)
MissingEncoder ==
    \E i \in 1..3 : categorical_features[i] \notin label_encoders

\* the features the claim speaks about are encoded as 0
DefaultCodes ==
    /\ Len(trace.codes) = 3
    /\ \A i \in 1..3 :
           categorical_features[i] \notin label_encoders => trace.codes[i] = 0
    /\ UnseenWater => trace.codes[2] = 0
    /\ UnseenLight => trace.codes[3] = 0

\* C7 as stated: with an unseen water_availability or light_access value,
\* or when the encoder of a categorical feature does not exist, the feature
\* is encoded as 0 and the call continues on the classifier path without
\* raising and without switching to the static fallback list.
C7_DefaultCodeStaysOnClassifierPath ==
    (IsRecommend /\ FeaturesBuilt /\ (UnseenWater \/ UnseenLight \/ MissingEncoder)) =>
        /\ DefaultCodes
        /\ ret.kind = "list"
        /\ trace.path = "classifier"

\* C7 amended: the feature is encoded as 0 and encoding does not raise; the
\* call then takes the classifier path exactly when the classifier is
\* fitted.  When an encoder does not exist the classifier is never fitted,
\* and the call returns the static fallback list.
C7_DefaultCodeThenClassifierIfFitted ==
    (IsRecommend /\ FeaturesBuilt /\ (UnseenWater \/ UnseenLight \/ MissingEncoder)) =>
        /\ DefaultCodes
        /\ ret.kind = "list"
        /\ trace.caught \in {"none", "NotFittedError"}
        /\ (trace.path = "classifier") <=> (crop_recommender = "fitted")
        /\ MissingEncoder =>
               /\ crop_recommender = "None"
               /\ trace.path = "static_else"
               /\ ret.recs = StaticRanking

\* a fitted classifier answers a query whose light_access was never seen
C7_Witness ==
    /\ IsRecommend
    /\ call.farm_params.light_access = "neon"
    /\ crop_recommender = "fitted"
    /\ trace.codes[3] = 0
    /\ trace.path = "classifier"
    /\ ret.recs # StaticRanking

\* C8 as stated: for every result returned by predict_yield and every
\* queried area_size, total_yield_kg = yield_kg_per_sqm * area_size.
C8_TotalIsYieldTimesArea ==
    (IsPredict /\ ret.kind = "est") =>
        8 * ret.est.total_yield_kg = ret.est.yield_kg_per_sqm * Area

\* C8 amended: total_yield_kg is rounded from the unrounded product, so for
\* area_size >= 0 it equals yield_kg_per_sqm * area_size only up to
\* rounding: |total_yield_kg - yield_kg_per_sqm * area_size| <=
\* 0.005 * (area_size + 1), on the trained and on the fallback path.
C8_TotalWithinRoundingOfProduct ==
    (IsPredict /\ ret.kind = "est" /\ Area >= 0) =>
        LET diff == 8 * ret.est.total_yield_kg - ret.est.yield_kg_per_sqm * Area
        IN  /\ 2 * diff <= Area + 8
            /\ 2 * diff >= -(Area + 8)

\* prediction 0.125 on area 3.0: yield 0.12, total 0.38, product 0.36
C8_Witness ==
    /\ IsPredict
    /\ trace.path = "regressors"
    /\ Area = 24
    /\ ret.est.yield_kg_per_sqm = 12
    /\ ret.est.total_yield_kg = 38

\* C9 as stated: on the trained path harvests_per_year =
\* max(1, round(365 / growth_time_days, 1)) with the growth_time_days of
\* the same result.
C9_HarvestsFromReturnedDays ==
    (IsPredict /\ trace.path = "regressors") =>
        ret.est.harvests_per_year =
            Max(10, RoundHalfEven(3650, ret.est.growth_time_days))

\* C9 amended: on the trained path harvests_per_year =
\* max(1, round(365 / max(30, predicted_growth_time), 1)) with the unrounded
\* prediction; it equals the stated formula when the prediction is a whole
\* number of days or below 30.
C9_HarvestsFromUnroundedPrediction ==
    (IsPredict /\ trace.path = "regressors") =>
        LET g == trace.predicted_growth_time
        IN  /\ ret.est.harvests_per_year =
                   Max(10, RoundHalfEven(29200, IF g < 240 THEN 240 ELSE g))
            /\ (g % 8 = 0 \/ g < 240) =>
                   ret.est.harvests_per_year =
                       Max(10, RoundHalfEven(3650, ret.est.growth_time_days))

\* prediction 30.5 days: growth_time_days 30, harvests 12.0 (365/30 is 12.2)
C9_Witness ==
    /\ IsPredict
    /\ trace.path = "regressors"
    /\ trace.predicted_growth_time = 244
    /\ ret.est.growth_time_days = 30
    /\ ret.est.harvests_per_year = 120

\* C10: _get_suitability_level maps a confidence c in [0,1] to 'Excellent'
\* if c > 0.7, else 'Good' if c > 0.5, else 'Fair' if c > 0.3, else 'Poor',
\* with strict comparisons: exactly 0.7 gives 'Good', exactly 0.5 'Fair',
\* exactly 0.3 'Poor'.
C10_SuitabilityThresholds ==
    suitability # "none" =>
        LET n == confidence.n
            d == confidence.d
        IN  /\ (suitability = "Excellent") <=> (10 * n > 7 * d)
            /\ (suitability = "Good") <=> (10 * n > 5 * d /\ 10 * n <= 7 * d)
            /\ (suitability = "Fair") <=> (10 * n > 3 * d /\ 10 * n <= 5 * d)
            /\ (suitability = "Poor") <=> (10 * n <= 3 * d)
            /\ (10 * n = 7 * d) => suitability = "Good"
            /\ (10 * n = 5 * d) => suitability = "Fair"
            /\ (10 * n = 3 * d) => suitability = "Poor"

\* the level of exactly 0.7
C10_Witness ==
    /\ confidence = [n |-> 7, d |-> 10]
    /\ suitability = "Good"

\* C11: in every list recommend_crops returns, from the classifier or from
\* the static fallback, each entry's suitability is the level the threshold
\* rule (> 0.7 Excellent, > 0.5 Good, > 0.3 Fair, else Poor) gives to the
\* entry's reported confidence divided by 100.
C11_LabelIsLevelOfReportedConfidence ==
    (IsRecommend /\ ret.kind = "list") =>
        \A i \in 1..Len(ret.recs) :
            ret.recs[i].suitability =
                _get_suitability_level(ret.recs[i].confidence, 10000)

\* position of _train_models in the order of its statements
TrainingRank(p) ==
    CASE p = "get_training_data" -> 1
      [] p = "encode_1" -> 2
      [] p = "encode_2" -> 3
      [] p = "encode_3" -> 4
      [] p = "fit_classifier" -> 5
      [] p = "encode_crop" -> 6
      [] p = "fit_scaler" -> 7
      [] p = "fit_yield" -> 8
      [] p = "fit_growth" -> 9
      [] p = "ready" -> 10
      [] OTHER -> 0

\* C12: training runs once, inside the constructor: its statements run in
\* order and none runs twice; no recommend_crops or predict_yield call on
\* farming_ai begins before the training attempt has finished (with success
\* or with a caught failure); and once it has finished no step retrains or
\* replaces a model, an encoder, the scaler or crop_names.
C12_TrainingOnceBeforeAnyCall ==
    [][ /\ pc # "ready" => UNCHANGED <<call, ret, trace, caller_args>>
        /\ pc = "ready" => (pc' = "ready" /\ UNCHANGED model_vars)
        /\ pc' # pc => TrainingRank(pc) < TrainingRank(pc')
      ]_vars

\* a call answered by the classifier, after a training that fitted it
C12_Witness ==
    /\ pc = "ready"
    /\ crop_recommender = "fitted"
    /\ IsRecommend
    /\ trace.path = "classifier"

\* C13: recommend_crops and predict_yield are read-only: a call, answered
\* by the models or by a fallback, leaves crop_recommender, yield_predictor,
\* growth_time_predictor, label_encoders, scalers and crop_names as they
\* were (so after any sequence of calls they are as construction left
\* them), and leaves the caller's farm_params and weather_data as passed.
C13_InferenceIsReadOnly ==
    [][ (call' # call \/ ret' # ret \/ trace' # trace) =>
            /\ UNCHANGED model_vars
            /\ caller_args'.farm_params = call'.farm_params
            /\ caller_args'.weather_data = call'.weather_data
      ]_vars

\* a call that took the handler's fallback, the models as training left them
C13_Witness ==
    /\ IsPredict
    /\ trace.path = "static_except"
    /\ BothFitted
    /\ "yield_features" \in scalers
    /\ caller_args.farm_params = call.farm_params
    /\ caller_args.weather_data = call.weather_data

\* the positions of _train_models
TrainingPositions ==
    {"get_training_data", "encode_1", "encode_2", "encode_3", "fit_classifier",
     "encode_crop", "fit_scaler", "fit_yield", "fit_growth"}

\* the next statement of _train_models
TrainModelsStep ==
    \/ GetTrainingData
    \/ \E i \in 1..3 : FitLabelEncoder(i)
    \/ FitCropRecommender
    \/ FitCropEncoder
    \/ FitScaler
    \/ FitYieldPredictor
    \/ FitGrowthTimePredictor

\* C16: a failure during training (get_training_data raising, or a fit
\* raising) never leaves the constructor: the constructor is always either
\* at a statement of _train_models that can run or finished, never left by
\* an exception; and a model whose training failed is left None or unfitted,
\* a state in which recommend_crops answers with the static list and
\* predict_yield takes a static fallback path, never the models.
C16_TrainingFailureStaysInConstructor ==
    /\ pc \in TrainingPositions \cup {"ready"}
    /\ pc \in TrainingPositions => ENABLED TrainModelsStep
    /\ crop_recommender \in {"None", "unfitted", "fitted"}
    /\ yield_predictor \in {"None", "unfitted", "fitted"}
    /\ growth_time_predictor \in {"None", "unfitted", "fitted"}
    /\ (pc = "ready" /\ IsRecommend /\ crop_recommender # "fitted") =>
           /\ trace.path \in {"static_else", "static_except"}
           /\ ret = ListRet(_get_default_recommendations)
    /\ (pc = "ready" /\ IsPredict /\ ~BothFitted) =>
           /\ trace.path \in {"static_else", "static_except", "raised"}
           /\ ret.kind = "est" =>
                  ret.est = _get_default_yield_prediction(call.crop, Area)

\* the classifier's fit raised, and predict_yield was then called
C16_Witness ==
    /\ pc = "ready"
    /\ crop_recommender = "unfitted"
    /\ yield_predictor = "None"
    /\ IsPredict
    /\ trace.path = "static_else"
    /\ ret.est = _get_default_yield_prediction(call.crop, Area)

-----------------------------------------------------------------------------
(* The weather lookup, src/weather_service.py.                              *)
(* temp and humidity in units, wind_speed in tenths.  Of the sixteen items  *)
(* of the weather dict the model keeps those with a rule of their own; the  *)
(* others are copied from the body like country.                            *)

\* the location looked up
Location == "Chennai"

\* the items of the response body that lines 29-44 index without a default
RequiredPaths ==
    {"name", "sys", "sys.country", "sys.sunrise", "sys.sunset", "main",
     "main.temp", "main.feels_like", "main.temp_min", "main.temp_max",
     "main.humidity", "main.pressure", "weather", "weather[0]",
     "weather[0].description", "weather[0].main", "wind", "clouds",
     "clouds.all", "timezone"}

\* the items read with .get and a default
OptionalPaths == {"wind.speed", "visibility"}

\* the status codes the API answers with
StatusCodes == {200, 204, 401, 404, 500, 503}

\* a response body: not JSON, JSON that is not an object, or an object
\* from which at most one item is missing
Bodies ==
    {[json |-> "invalid"], [json |-> "array"]} \cup
    { [json |-> "object", missing |-> missing, temp |-> temp,
       humidity |-> humidity] :
          missing \in {{}} \cup {{p} : p \in RequiredPaths \cup OptionalPaths},
          temp \in {22, 30}, humidity \in {65, 80} }

\* line 22: requests.get returns a response or raises
Responses ==
    { [kind |-> "raised", exc |-> exc] :
          exc \in {"ConnectionError", "Timeout", "UnicodeError"} } \cup
    { [kind |-> "response", status_code |-> status_code, body |-> body] :
          status_code \in StatusCodes, body \in Bodies }

\* a default object without its flag
DefaultWeatherDataUnflagged(location) ==
    [location |-> location, country |-> "Unknown", temp |-> 22,
     humidity |-> 65, wind_speed |-> 35, visibility |-> 10000]

\* lines 70-90
_get_default_weather_data(location) ==
    [location |-> location, country |-> "Unknown", temp |-> 22,
     humidity |-> 65, wind_speed |-> 35, visibility |-> 10000,
     is_default |-> TRUE]

\* lines 25-44: the first exception that reading the body raises
ExtractError(body) ==
    IF body.json = "invalid" THEN "JSONDecodeError"
    ELSE IF body.json = "array" THEN "TypeError"
    ELSE IF body.missing \cap RequiredPaths = {} THEN "none"
    ELSE IF "weather[0]" \in body.missing THEN "IndexError"
    ELSE "KeyError"

\* lines 28-45: the weather dict of a complete body
ExtractWeather(body) ==
    [location |-> "name", country |-> "sys.country", temp |-> body.temp,
     humidity |-> body.humidity,
     wind_speed |-> IF "wind.speed" \in body.missing THEN 0 ELSE 50,
     visibility |-> IF "visibility" \in body.missing THEN 10000 ELSE 8000]

DictRet(data) == [kind |-> "dict", data |-> data]
NoneRet == [kind |-> "None", data |-> <<>>]

\* lines 13-68
get_weather_data(location, r) ==
    IF r.kind = "raised"
    THEN DictRet(_get_default_weather_data(location))     \* lines 62-68
    ELSE IF r.status_code = 200
         THEN IF ExtractError(r.body) = "none"
              THEN DictRet(ExtractWeather(r.body))        \* line 48
              ELSE DictRet(_get_default_weather_data(location))
    ELSE IF r.status_code = 401
         THEN DictRet(_get_default_weather_data(location))    \* line 52
    ELSE IF r.status_code = 404
         THEN NoneRet                                         \* line 56
    ELSE DictRet(_get_default_weather_data(location))         \* line 60

GetWeatherData ==
    /\ \E r \in Responses :
         /\ response' = r
         /\ weather' = get_weather_data(Location, r)
    /\ UNCHANGED <<pc, model_vars, call, ret, trace, confidence, suitability,
                   caller_args, serving_vars, data_vars, request_vars>>

WeatherSpec == Init /\ [][GetWeatherData]_vars

\* the live lookup did not succeed
LookupFailed ==
    \/ response.kind = "raised"
    \/ response.status_code # 200
    \/ ExtractError(response.body) # "none"

\* C17 as stated: get_weather_data always returns a weather object with temp
\* and humidity; whenever the live lookup does not succeed (any non-200
\* status, a network error, a malformed body) it returns the default object
\* (temp 22.0, humidity 65, is_default true), never None, and never raises.
C17_AlwaysAWeatherObject ==
    response # <<>> =>
        /\ weather.kind = "dict"
        /\ {"temp", "humidity"} \subseteq DOMAIN weather.data
        /\ LookupFailed =>
               /\ weather.data.temp = 22
               /\ weather.data.humidity = 65
               /\ "is_default" \in DOMAIN weather.data
               /\ weather.data.is_default

\* C17, amended: get_weather_data never raises; on HTTP 404 it returns None;
\* on every other failed lookup (any other non-200 status, a network error,
\* a malformed body) it returns the default object (temp 22.0, humidity 65,
\* is_default true); and every object it returns contains temp and humidity.
C17_WeatherObjectOrNoneOn404 ==
    response # <<>> =>
        /\ weather.kind \in {"dict", "None"}
        /\ weather.kind = "None" <=>
               (response.kind = "response" /\ response.status_code = 404)
        /\ weather.kind = "dict" =>
               /\ {"temp", "humidity"} \subseteq DOMAIN weather.data
               /\ LookupFailed =>
                      /\ weather.data.temp = 22
                      /\ weather.data.humidity = 65
                      /\ "is_default" \in DOMAIN weather.data
                      /\ weather.data.is_default

\* a 200 response whose body lacks main.temp is answered with the default
C17_Witness ==
    /\ response # <<>>
    /\ response.kind = "response"
    /\ response.status_code = 200
    /\ response.body.json = "object"
    /\ response.body.missing = {"main.temp"}
    /\ weather = DictRet(_get_default_weather_data(Location))

-----------------------------------------------------------------------------
(* The suitability samples, generate_crop_recommendation_data in            *)
(* src/data/crop_data.py.  area_size, budget_per_sqm and temperature of a   *)
(* sample are in units of 1/DrawSteps; humidity is an int.                  *)

\* a uniform draw is one of the DrawSteps + 1 evenly spaced points of its
\* interval, both ends included
DrawSteps == 2

\* line 169, line 192, line 220: the lengths of the three loops
PositivesPerCrop == 50
NegativesPerCrop == 15
GlobalSamples == 200

\* lines 33-158, in the order of the dict
crop_profiles ==
  <<
  [crop |-> "Arugula", preferred_climate |-> <<"temperate_humid", "temperate_dry">>,
   water_needs |-> <<"medium">>, light_tolerance |-> <<"natural", "artificial", "hybrid">>,
   temp_range |-> <<14, 22>>, humidity_range |-> <<55, 70>>,
   min_budget_per_sqm |-> 190, min_area |-> 3],
  [crop |-> "Asian Greens", preferred_climate |-> <<"temperate_humid", "tropical_humid">>,
   water_needs |-> <<"medium", "high">>, light_tolerance |-> <<"artificial", "hybrid">>,
   temp_range |-> <<16, 26>>, humidity_range |-> <<60, 75>>,
   min_budget_per_sqm |-> 220, min_area |-> 4],
  [crop |-> "Baby Bok Choy", preferred_climate |-> <<"temperate_humid", "cold">>,
   water_needs |-> <<"medium", "high">>, light_tolerance |-> <<"artificial", "hybrid">>,
   temp_range |-> <<12, 24>>, humidity_range |-> <<65, 80>>,
   min_budget_per_sqm |-> 240, min_area |-> 5],
  [crop |-> "Baby Lettuce", preferred_climate |-> <<"temperate_humid", "temperate_dry">>,
   water_needs |-> <<"medium">>, light_tolerance |-> <<"natural", "artificial", "hybrid">>,
   temp_range |-> <<15, 23>>, humidity_range |-> <<50, 68>>,
   min_budget_per_sqm |-> 185, min_area |-> 4],
  [crop |-> "Butter Lettuce", preferred_climate |-> <<"temperate_humid">>,
   water_needs |-> <<"medium", "high">>, light_tolerance |-> <<"artificial", "hybrid">>,
   temp_range |-> <<16, 24>>, humidity_range |-> <<55, 70>>,
   min_budget_per_sqm |-> 210, min_area |-> 5],
  [crop |-> "Cabbage", preferred_climate |-> <<"cold", "temperate_humid">>,
   water_needs |-> <<"high">>, light_tolerance |-> <<"natural", "artificial", "hybrid">>,
   temp_range |-> <<10, 20>>, humidity_range |-> <<60, 75>>,
   min_budget_per_sqm |-> 280, min_area |-> 8],
  [crop |-> "Chinese Cabbage", preferred_climate |-> <<"temperate_humid", "cold">>,
   water_needs |-> <<"medium", "high">>, light_tolerance |-> <<"artificial", "hybrid">>,
   temp_range |-> <<12, 22>>, humidity_range |-> <<65, 78>>,
   min_budget_per_sqm |-> 260, min_area |-> 6],
  [crop |-> "Collard Greens", preferred_climate |-> <<"temperate_humid", "cold">>,
   water_needs |-> <<"medium", "high">>, light_tolerance |-> <<"natural", "artificial", "hybrid">>,
   temp_range |-> <<8, 24>>, humidity_range |-> <<60, 75>>,
   min_budget_per_sqm |-> 230, min_area |-> 6],
  [crop |-> "Endive", preferred_climate |-> <<"temperate_humid", "temperate_dry">>,
   water_needs |-> <<"medium">>, light_tolerance |-> <<"artificial", "hybrid">>,
   temp_range |-> <<14, 22>>, humidity_range |-> <<55, 70>>,
   min_budget_per_sqm |-> 220, min_area |-> 4],
  [crop |-> "Escarole", preferred_climate |-> <<"temperate_humid">>,
   water_needs |-> <<"medium">>, light_tolerance |-> <<"artificial", "hybrid">>,
   temp_range |-> <<15, 23>>, humidity_range |-> <<58, 72>>,
   min_budget_per_sqm |-> 215, min_area |-> 5],
  [crop |-> "Iceberg Lettuce", preferred_climate |-> <<"temperate_humid", "temperate_dry">>,
   water_needs |-> <<"high">>, light_tolerance |-> <<"artificial", "hybrid">>,
   temp_range |-> <<14, 22>>, humidity_range |-> <<55, 70>>,
   min_budget_per_sqm |-> 250, min_area |-> 7],
  [crop |-> "Kale", preferred_climate |-> <<"temperate_humid", "temperate_dry", "cold">>,
   water_needs |-> <<"medium", "high">>, light_tolerance |-> <<"natural", "artificial", "hybrid">>,
   temp_range |-> <<10, 24>>, humidity_range |-> <<55, 75>>,
   min_budget_per_sqm |-> 220, min_area |-> 4],
  [crop |-> "Lettuce", preferred_climate |-> <<"temperate_humid", "temperate_dry">>,
   water_needs |-> <<"medium", "high">>, light_tolerance |-> <<"natural", "artificial", "hybrid">>,
   temp_range |-> <<15, 25>>, humidity_range |-> <<50, 70>>,
   min_budget_per_sqm |-> 200, min_area |-> 5],
  [crop |-> "Mizuna", preferred_climate |-> <<"temperate_humid", "cold">>,
   water_needs |-> <<"medium">>, light_tolerance |-> <<"artificial", "hybrid">>,
   temp_range |-> <<12, 22>>, humidity_range |-> <<60, 75>>,
   min_budget_per_sqm |-> 205, min_area |-> 3],
  [crop |-> "Mustard Greens", preferred_climate |-> <<"temperate_humid", "cold">>,
   water_needs |-> <<"medium">>, light_tolerance |-> <<"artificial", "hybrid">>,
   temp_range |-> <<14, 24>>, humidity_range |-> <<55, 70>>,
   min_budget_per_sqm |-> 195, min_area |-> 4],
  [crop |-> "Oak Leaf Lettuce", preferred_climate |-> <<"temperate_humid">>,
   water_needs |-> <<"medium">>, light_tolerance |-> <<"artificial", "hybrid">>,
   temp_range |-> <<16, 24>>, humidity_range |-> <<52, 68>>,
   min_budget_per_sqm |-> 195, min_area |-> 4],
  [crop |-> "Radicchio", preferred_climate |-> <<"temperate_humid", "temperate_dry">>,
   water_needs |-> <<"medium">>, light_tolerance |-> <<"artificial", "hybrid">>,
   temp_range |-> <<15, 23>>, humidity_range |-> <<55, 70>>,
   min_budget_per_sqm |-> 240, min_area |-> 5],
  [crop |-> "Red Lettuce", preferred_climate |-> <<"temperate_humid">>,
   water_needs |-> <<"medium">>, light_tolerance |-> <<"artificial", "hybrid">>,
   temp_range |-> <<16, 24>>, humidity_range |-> <<50, 68>>,
   min_budget_per_sqm |-> 210, min_area |-> 4],
  [crop |-> "Romaine Lettuce", preferred_climate |-> <<"temperate_humid", "temperate_dry">>,
   water_needs |-> <<"medium", "high">>, light_tolerance |-> <<"artificial", "hybrid">>,
   temp_range |-> <<15, 24>>, humidity_range |-> <<55, 70>>,
   min_budget_per_sqm |-> 215, min_area |-> 5],
  [crop |-> "Spinach", preferred_climate |-> <<"temperate_humid", "cold">>,
   water_needs |-> <<"medium", "high">>, light_tolerance |-> <<"natural", "artificial", "hybrid">>,
   temp_range |-> <<12, 22>>, humidity_range |-> <<60, 75>>,
   min_budget_per_sqm |-> 180, min_area |-> 3],
  [crop |-> "Swiss Chard", preferred_climate |-> <<"temperate_humid", "temperate_dry">>,
   water_needs |-> <<"medium", "high">>, light_tolerance |-> <<"artificial", "hybrid">>,
   temp_range |-> <<16, 26>>, humidity_range |-> <<55, 70>>,
   min_budget_per_sqm |-> 225, min_area |-> 5],
  [crop |-> "Tatsoi", preferred_climate |-> <<"temperate_humid", "cold">>,
   water_needs |-> <<"medium">>, light_tolerance |-> <<"artificial", "hybrid">>,
   temp_range |-> <<12, 22>>, humidity_range |-> <<60, 75>>,
   min_budget_per_sqm |-> 200, min_area |-> 3],
  [crop |-> "Turnip Greens", preferred_climate |-> <<"temperate_humid", "cold">>,
   water_needs |-> <<"medium">>, light_tolerance |-> <<"artificial", "hybrid">>,
   temp_range |-> <<14, 24>>, humidity_range |-> <<58, 72>>,
   min_budget_per_sqm |-> 185, min_area |-> 4],
  [crop |-> "Watercress", preferred_climate |-> <<"temperate_humid">>,
   water_needs |-> <<"high">>, light_tolerance |-> <<"artificial", "hybrid">>,
   temp_range |-> <<12, 20>>, humidity_range |-> <<70, 85>>,
   min_budget_per_sqm |-> 280, min_area |-> 3],
  [crop |-> "Anise", preferred_climate |-> <<"temperate_humid", "tropical_dry">>,
   water_needs |-> <<"low", "medium">>, light_tolerance |-> <<"artificial", "hybrid">>,
   temp_range |-> <<18, 28>>, humidity_range |-> <<45, 65>>,
   min_budget_per_sqm |-> 320, min_area |-> 2],
  [crop |-> "Basil", preferred_climate |-> <<"temperate_humid", "tropical_humid">>,
   water_needs |-> <<"medium">>, light_tolerance |-> <<"artificial", "hybrid">>,
   temp_range |-> <<18, 26>>, humidity_range |-> <<50, 70>>,
   min_budget_per_sqm |-> 350, min_area |-> 2],
  [crop |-> "Bay Leaves", preferred_climate |-> <<"temperate_humid", "tropical_dry">>,
   water_needs |-> <<"low">>, light_tolerance |-> <<"artificial", "hybrid">>,
   temp_range |-> <<20, 28>>, humidity_range |-> <<40, 60>>,
   min_budget_per_sqm |-> 450, min_area |-> 5],
  [crop |-> "Chervil", preferred_climate |-> <<"temperate_humid">>,
   water_needs |-> <<"medium">>, light_tolerance |-> <<"artificial", "hybrid">>,
   temp_range |-> <<15, 22>>, humidity_range |-> <<55, 70>>,
   min_budget_per_sqm |-> 340, min_area |-> 2],
  [crop |-> "Chives", preferred_climate |-> <<"temperate_humid", "cold">>,
   water_needs |-> <<"medium">>, light_tolerance |-> <<"artificial", "hybrid">>,
   temp_range |-> <<12, 24>>, humidity_range |-> <<50, 70>>,
   min_budget_per_sqm |-> 280, min_area |-> 1],
  [crop |-> "Cilantro", preferred_climate |-> <<"temperate_humid", "temperate_dry">>,
   water_needs |-> <<"medium">>, light_tolerance |-> <<"artificial", "hybrid">>,
   temp_range |-> <<16, 24>>, humidity_range |-> <<50, 65>>,
   min_budget_per_sqm |-> 290, min_area |-> 2],
  [crop |-> "Dill", preferred_climate |-> <<"temperate_humid">>,
   water_needs |-> <<"medium">>, light_tolerance |-> <<"artificial", "hybrid">>,
   temp_range |-> <<16, 25>>, humidity_range |-> <<50, 65>>,
   min_budget_per_sqm |-> 310, min_area |-> 2],
  [crop |-> "Fennel", preferred_climate |-> <<"temperate_humid", "temperate_dry">>,
   water_needs |-> <<"medium">>, light_tolerance |-> <<"artificial", "hybrid">>,
   temp_range |-> <<18, 26>>, humidity_range |-> <<55, 70>>,
   min_budget_per_sqm |-> 330, min_area |-> 3],
  [crop |-> "Herbs", preferred_climate |-> <<"temperate_humid", "temperate_dry", "tropical_dry">>,
   water_needs |-> <<"low", "medium">>, light_tolerance |-> <<"artificial", "hybrid">>,
   temp_range |-> <<18, 28>>, humidity_range |-> <<45, 65>>,
   min_budget_per_sqm |-> 300, min_area |-> 2],
  [crop |-> "Lavender", preferred_climate |-> <<"temperate_dry", "tropical_dry">>,
   water_needs |-> <<"low">>, light_tolerance |-> <<"artificial", "hybrid">>,
   temp_range |-> <<20, 30>>, humidity_range |-> <<40, 60>>,
   min_budget_per_sqm |-> 380, min_area |-> 3],
  [crop |-> "Lemon Balm", preferred_climate |-> <<"temperate_humid">>,
   water_needs |-> <<"medium">>, light_tolerance |-> <<"artificial", "hybrid">>,
   temp_range |-> <<18, 26>>, humidity_range |-> <<55, 70>>,
   min_budget_per_sqm |-> 320, min_area |-> 2],
  [crop |-> "Lemon Thyme", preferred_climate |-> <<"temperate_humid", "temperate_dry">>,
   water_needs |-> <<"low", "medium">>, light_tolerance |-> <<"artificial", "hybrid">>,
   temp_range |-> <<18, 28>>, humidity_range |-> <<45, 65>>,
   min_budget_per_sqm |-> 340, min_area |-> 2],
  [crop |-> "Marjoram", preferred_climate |-> <<"temperate_humid", "temperate_dry">>,
   water_needs |-> <<"low", "medium">>, light_tolerance |-> <<"artificial", "hybrid">>,
   temp_range |-> <<20, 28>>, humidity_range |-> <<45, 65>>,
   min_budget_per_sqm |-> 350, min_area |-> 2],
  [crop |-> "Mint", preferred_climate |-> <<"temperate_humid">>,
   water_needs |-> <<"medium", "high">>, light_tolerance |-> <<"artificial", "hybrid">>,
   temp_range |-> <<16, 26>>, humidity_range |-> <<60, 75>>,
   min_budget_per_sqm |-> 300, min_area |-> 2],
  [crop |-> "Oregano", preferred_climate |-> <<"temperate_humid", "tropical_dry">>,
   water_needs |-> <<"low", "medium">>, light_tolerance |-> <<"artificial", "hybrid">>,
   temp_range |-> <<18, 28>>, humidity_range |-> <<45, 65>>,
   min_budget_per_sqm |-> 330, min_area |-> 2],
  [crop |-> "Parsley", preferred_climate |-> <<"temperate_humid">>,
   water_needs |-> <<"medium">>, light_tolerance |-> <<"artificial", "hybrid">>,
   temp_range |-> <<16, 24>>, humidity_range |-> <<55, 70>>,
   min_budget_per_sqm |-> 290, min_area |-> 2],
  [crop |-> "Peppermint", preferred_climate |-> <<"temperate_humid">>,
   water_needs |-> <<"medium", "high">>, light_tolerance |-> <<"artificial", "hybrid">>,
   temp_range |-> <<16, 26>>, humidity_range |-> <<60, 75>>,
   min_budget_per_sqm |-> 310, min_area |-> 2],
  [crop |-> "Rosemary", preferred_climate |-> <<"temperate_dry", "tropical_dry">>,
   water_needs |-> <<"low">>, light_tolerance |-> <<"artificial", "hybrid">>,
   temp_range |-> <<20, 30>>, humidity_range |-> <<40, 60>>,
   min_budget_per_sqm |-> 400, min_area |-> 3],
  [crop |-> "Sage", preferred_climate |-> <<"temperate_humid", "temperate_dry">>,
   water_needs |-> <<"low", "medium">>, light_tolerance |-> <<"artificial", "hybrid">>,
   temp_range |-> <<18, 28>>, humidity_range |-> <<45, 65>>,
   min_budget_per_sqm |-> 360, min_area |-> 2],
  [crop |-> "Spearmint", preferred_climate |-> <<"temperate_humid">>,
   water_needs |-> <<"medium", "high">>, light_tolerance |-> <<"artificial", "hybrid">>,
   temp_range |-> <<16, 26>>, humidity_range |-> <<60, 75>>,
   min_budget_per_sqm |-> 300, min_area |-> 2],
  [crop |-> "Tarragon", preferred_climate |-> <<"temperate_humid">>,
   water_needs |-> <<"medium">>, light_tolerance |-> <<"artificial", "hybrid">>,
   temp_range |-> <<18, 26>>, humidity_range |-> <<50, 68>>,
   min_budget_per_sqm |-> 380, min_area |-> 2],
  [crop |-> "Thai Basil", preferred_climate |-> <<"tropical_humid">>,
   water_needs |-> <<"medium">>, light_tolerance |-> <<"artificial", "hybrid">>,
   temp_range |-> <<22, 30>>, humidity_range |-> <<60, 75>>,
   min_budget_per_sqm |-> 370, min_area |-> 2],
  [crop |-> "Thyme", preferred_climate |-> <<"temperate_humid", "temperate_dry">>,
   water_needs |-> <<"low", "medium">>, light_tolerance |-> <<"artificial", "hybrid">>,
   temp_range |-> <<18, 28>>, humidity_range |-> <<45, 65>>,
   min_budget_per_sqm |-> 340, min_area |-> 2],
  [crop |-> "Alfalfa Microgreens", preferred_climate |-> <<"temperate_humid", "temperate_dry">>,
   water_needs |-> <<"medium">>, light_tolerance |-> <<"artificial", "hybrid">>,
   temp_range |-> <<18, 26>>, humidity_range |-> <<50, 70>>,
   min_budget_per_sqm |-> 380, min_area |-> 1],
  [crop |-> "Arugula Microgreens", preferred_climate |-> <<"temperate_humid">>,
   water_needs |-> <<"medium">>, light_tolerance |-> <<"artificial", "hybrid">>,
   temp_range |-> <<16, 24>>, humidity_range |-> <<55, 70>>,
   min_budget_per_sqm |-> 400, min_area |-> 1],
  [crop |-> "Beet Microgreens", preferred_climate |-> <<"temperate_humid", "cold">>,
   water_needs |-> <<"medium">>, light_tolerance |-> <<"artificial", "hybrid">>,
   temp_range |-> <<14, 24>>, humidity_range |-> <<60, 75>>,
   min_budget_per_sqm |-> 420, min_area |-> 1],
  [crop |-> "Broccoli Microgreens", preferred_climate |-> <<"temperate_humid">>,
   water_needs |-> <<"medium">>, light_tolerance |-> <<"artificial", "hybrid">>,
   temp_range |-> <<16, 26>>, humidity_range |-> <<55, 70>>,
   min_budget_per_sqm |-> 450, min_area |-> 1],
  [crop |-> "Cabbage Microgreens", preferred_climate |-> <<"temperate_humid", "cold">>,
   water_needs |-> <<"medium">>, light_tolerance |-> <<"artificial", "hybrid">>,
   temp_range |-> <<14, 24>>, humidity_range |-> <<60, 75>>,
   min_budget_per_sqm |-> 410, min_area |-> 1],
  [crop |-> "Chia Microgreens", preferred_climate |-> <<"temperate_humid", "tropical_humid">>,
   water_needs |-> <<"medium", "high">>, light_tolerance |-> <<"artificial", "hybrid">>,
   temp_range |-> <<18, 28>>, humidity_range |-> <<60, 80>>,
   min_budget_per_sqm |-> 480, min_area |-> 1],
  [crop |-> "Cilantro Microgreens", preferred_climate |-> <<"temperate_humid">>,
   water_needs |-> <<"medium">>, light_tolerance |-> <<"artificial", "hybrid">>,
   temp_range |-> <<16, 24>>, humidity_range |-> <<50, 68>>,
   min_budget_per_sqm |-> 440, min_area |-> 1],
  [crop |-> "Kale Microgreens", preferred_climate |-> <<"temperate_humid", "cold">>,
   water_needs |-> <<"medium">>, light_tolerance |-> <<"artificial", "hybrid">>,
   temp_range |-> <<14, 24>>, humidity_range |-> <<55, 72>>,
   min_budget_per_sqm |-> 430, min_area |-> 1],
  [crop |-> "Microgreens", preferred_climate |-> <<"temperate_humid", "temperate_dry", "tropical_humid", "tropical_dry">>,
   water_needs |-> <<"medium", "high">>, light_tolerance |-> <<"artificial", "hybrid">>,
   temp_range |-> <<16, 26>>, humidity_range |-> <<50, 80>>,
   min_budget_per_sqm |-> 400, min_area |-> 1],
  [crop |-> "Mustard Microgreens", preferred_climate |-> <<"temperate_humid">>,
   water_needs |-> <<"medium">>, light_tolerance |-> <<"artificial", "hybrid">>,
   temp_range |-> <<16, 24>>, humidity_range |-> <<55, 70>>,
   min_budget_per_sqm |-> 390, min_area |-> 1],
  [crop |-> "Pea Microgreens", preferred_climate |-> <<"temperate_humid", "cold">>,
   water_needs |-> <<"medium">>, light_tolerance |-> <<"artificial", "hybrid">>,
   temp_range |-> <<14, 22>>, humidity_range |-> <<60, 75>>,
   min_budget_per_sqm |-> 360, min_area |-> 1],
  [crop |-> "Radish Microgreens", preferred_climate |-> <<"temperate_humid">>,
   water_needs |-> <<"medium">>, light_tolerance |-> <<"artificial", "hybrid">>,
   temp_range |-> <<16, 24>>, humidity_range |-> <<55, 70>>,
   min_budget_per_sqm |-> 370, min_area |-> 1],
  [crop |-> "Sunflower Microgreens", preferred_climate |-> <<"temperate_humid", "temperate_dry">>,
   water_needs |-> <<"medium">>, light_tolerance |-> <<"artificial", "hybrid">>,
   temp_range |-> <<18, 26>>, humidity_range |-> <<50, 68>>,
   min_budget_per_sqm |-> 350, min_area |-> 1],
  [crop |-> "Wheatgrass", preferred_climate |-> <<"temperate_humid">>,
   water_needs |-> <<"medium", "high">>, light_tolerance |-> <<"artificial", "hybrid">>,
   temp_range |-> <<16, 24>>, humidity_range |-> <<60, 75>>,
   min_budget_per_sqm |-> 320, min_area |-> 1],
  [crop |-> "Artichokes", preferred_climate |-> <<"temperate_humid", "temperate_dry">>,
   water_needs |-> <<"medium", "high">>, light_tolerance |-> <<"artificial", "hybrid">>,
   temp_range |-> <<16, 24>>, humidity_range |-> <<55, 70>>,
   min_budget_per_sqm |-> 550, min_area |-> 20],
  [crop |-> "Beans", preferred_climate |-> <<"temperate_humid", "tropical_humid">>,
   water_needs |-> <<"medium", "high">>, light_tolerance |-> <<"artificial", "hybrid">>,
   temp_range |-> <<18, 28>>, humidity_range |-> <<60, 75>>,
   min_budget_per_sqm |-> 380, min_area |-> 8],
  [crop |-> "Bell Peppers", preferred_climate |-> <<"tropical_humid", "tropical_dry">>,
   water_needs |-> <<"medium", "high">>, light_tolerance |-> <<"artificial", "hybrid">>,
   temp_range |-> <<20, 28>>, humidity_range |-> <<55, 70>>,
   min_budget_per_sqm |-> 480, min_area |-> 10],
  [crop |-> "Cherry Tomatoes", preferred_climate |-> <<"temperate_humid", "tropical_humid">>,
   water_needs |-> <<"high">>, light_tolerance |-> <<"artificial", "hybrid">>,
   temp_range |-> <<18, 26>>, humidity_range |-> <<60, 75>>,
   min_budget_per_sqm |-> 450, min_area |-> 8],
  [crop |-> "Chili Peppers", preferred_climate |-> <<"tropical_humid", "tropical_dry">>,
   water_needs |-> <<"medium">>, light_tolerance |-> <<"artificial", "hybrid">>,
   temp_range |-> <<22, 32>>, humidity_range |-> <<50, 68>>,
   min_budget_per_sqm |-> 420, min_area |-> 6],
  [crop |-> "Cucumbers", preferred_climate |-> <<"temperate_humid", "tropical_humid">>,
   water_needs |-> <<"high">>, light_tolerance |-> <<"artificial", "hybrid">>,
   temp_range |-> <<20, 28>>, humidity_range |-> <<65, 80>>,
   min_budget_per_sqm |-> 400, min_area |-> 12],
  [crop |-> "Eggplant", preferred_climate |-> <<"tropical_humid", "tropical_dry">>,
   water_needs |-> <<"medium", "high">>, light_tolerance |-> <<"artificial", "hybrid">>,
   temp_range |-> <<22, 30>>, humidity_range |-> <<60, 75>>,
   min_budget_per_sqm |-> 520, min_area |-> 15],
  [crop |-> "Green Beans", preferred_climate |-> <<"temperate_humid", "tropical_humid">>,
   water_needs |-> <<"medium">>, light_tolerance |-> <<"artificial", "hybrid">>,
   temp_range |-> <<18, 26>>, humidity_range |-> <<55, 70>>,
   min_budget_per_sqm |-> 360, min_area |-> 8],
  [crop |-> "Hot Peppers", preferred_climate |-> <<"tropical_humid", "tropical_dry">>,
   water_needs |-> <<"low", "medium">>, light_tolerance |-> <<"artificial", "hybrid">>,
   temp_range |-> <<24, 32>>, humidity_range |-> <<45, 65>>,
   min_budget_per_sqm |-> 400, min_area |-> 5],
  [crop |-> "Okra", preferred_climate |-> <<"tropical_humid", "tropical_dry">>,
   water_needs |-> <<"medium">>, light_tolerance |-> <<"artificial", "hybrid">>,
   temp_range |-> <<24, 32>>, humidity_range |-> <<55, 70>>,
   min_budget_per_sqm |-> 380, min_area |-> 10],
  [crop |-> "Peas", preferred_climate |-> <<"temperate_humid", "cold">>,
   water_needs |-> <<"medium">>, light_tolerance |-> <<"artificial", "hybrid">>,
   temp_range |-> <<12, 22>>, humidity_range |-> <<60, 75>>,
   min_budget_per_sqm |-> 340, min_area |-> 6],
  [crop |-> "Peppers", preferred_climate |-> <<"tropical_humid", "tropical_dry">>,
   water_needs |-> <<"medium", "high">>, light_tolerance |-> <<"artificial", "hybrid">>,
   temp_range |-> <<22, 30>>, humidity_range |-> <<55, 70>>,
   min_budget_per_sqm |-> 450, min_area |-> 8],
  [crop |-> "Snow Peas", preferred_climate |-> <<"temperate_humid", "cold">>,
   water_needs |-> <<"medium">>, light_tolerance |-> <<"artificial", "hybrid">>,
   temp_range |-> <<12, 20>>, humidity_range |-> <<65, 75>>,
   min_budget_per_sqm |-> 350, min_area |-> 6],
  [crop |-> "Sweet Peppers", preferred_climate |-> <<"tropical_humid", "temperate_humid">>,
   water_needs |-> <<"medium", "high">>, light_tolerance |-> <<"artificial", "hybrid">>,
   temp_range |-> <<20, 28>>, humidity_range |-> <<55, 70>>,
   min_budget_per_sqm |-> 460, min_area |-> 9],
  [crop |-> "Tomatoes", preferred_climate |-> <<"temperate_humid", "tropical_humid">>,
   water_needs |-> <<"high">>, light_tolerance |-> <<"artificial", "hybrid">>,
   temp_range |-> <<20, 28>>, humidity_range |-> <<60, 75>>,
   min_budget_per_sqm |-> 500, min_area |-> 10],
  [crop |-> "Zucchini", preferred_climate |-> <<"temperate_humid", "tropical_humid">>,
   water_needs |-> <<"medium", "high">>, light_tolerance |-> <<"artificial", "hybrid">>,
   temp_range |-> <<18, 28>>, humidity_range |-> <<60, 75>>,
   min_budget_per_sqm |-> 420, min_area |-> 15],
  [crop |-> "Blueberries", preferred_climate |-> <<"temperate_humid", "cold">>,
   water_needs |-> <<"medium", "high">>, light_tolerance |-> <<"artificial", "hybrid">>,
   temp_range |-> <<12, 24>>, humidity_range |-> <<60, 75>>,
   min_budget_per_sqm |-> 800, min_area |-> 25],
  [crop |-> "Cranberries", preferred_climate |-> <<"cold", "temperate_humid">>,
   water_needs |-> <<"high">>, light_tolerance |-> <<"artificial", "hybrid">>,
   temp_range |-> <<8, 18>>, humidity_range |-> <<70, 85>>,
   min_budget_per_sqm |-> 900, min_area |-> 30],
  [crop |-> "Currants", preferred_climate |-> <<"cold", "temperate_humid">>,
   water_needs |-> <<"medium">>, light_tolerance |-> <<"artificial", "hybrid">>,
   temp_range |-> <<10, 22>>, humidity_range |-> <<60, 75>>,
   min_budget_per_sqm |-> 650, min_area |-> 20],
  [crop |-> "Elderberries", preferred_climate |-> <<"temperate_humid">>,
   water_needs |-> <<"medium">>, light_tolerance |-> <<"artificial", "hybrid">>,
   temp_range |-> <<16, 26>>, humidity_range |-> <<55, 70>>,
   min_budget_per_sqm |-> 720, min_area |-> 35],
  [crop |-> "Gooseberries", preferred_climate |-> <<"cold", "temperate_humid">>,
   water_needs |-> <<"medium">>, light_tolerance |-> <<"artificial", "hybrid">>,
   temp_range |-> <<10, 20>>, humidity_range |-> <<60, 75>>,
   min_budget_per_sqm |-> 680, min_area |-> 20],
  [crop |-> "Goji Berries", preferred_climate |-> <<"temperate_dry", "cold">>,
   water_needs |-> <<"low", "medium">>, light_tolerance |-> <<"artificial", "hybrid">>,
   temp_range |-> <<12, 26>>, humidity_range |-> <<45, 65>>,
   min_budget_per_sqm |-> 750, min_area |-> 25],
  [crop |-> "Grapes", preferred_climate |-> <<"temperate_humid", "temperate_dry">>,
   water_needs |-> <<"medium">>, light_tolerance |-> <<"artificial", "hybrid">>,
   temp_range |-> <<18, 28>>, humidity_range |-> <<50, 70>>,
   min_budget_per_sqm |-> 950, min_area |-> 40],
  [crop |-> "Kiwi", preferred_climate |-> <<"temperate_humid">>,
   water_needs |-> <<"medium", "high">>, light_tolerance |-> <<"artificial", "hybrid">>,
   temp_range |-> <<16, 26>>, humidity_range |-> <<60, 75>>,
   min_budget_per_sqm |-> 850, min_area |-> 35],
  [crop |-> "Lemons", preferred_climate |-> <<"tropical_dry", "temperate_dry">>,
   water_needs |-> <<"medium">>, light_tolerance |-> <<"artificial", "hybrid">>,
   temp_range |-> <<18, 30>>, humidity_range |-> <<45, 65>>,
   min_budget_per_sqm |-> 1000, min_area |-> 50],
  [crop |-> "Limes", preferred_climate |-> <<"tropical_humid", "tropical_dry">>,
   water_needs |-> <<"medium">>, light_tolerance |-> <<"artificial", "hybrid">>,
   temp_range |-> <<20, 32>>, humidity_range |-> <<50, 70>>,
   min_budget_per_sqm |-> 950, min_area |-> 45],
  [crop |-> "Oranges", preferred_climate |-> <<"tropical_dry", "temperate_dry">>,
   water_needs |-> <<"medium">>, light_tolerance |-> <<"artificial", "hybrid">>,
   temp_range |-> <<18, 30>>, humidity_range |-> <<45, 65>>,
   min_budget_per_sqm |-> 1100, min_area |-> 60],
  [crop |-> "Passion Fruit", preferred_climate |-> <<"tropical_humid">>,
   water_needs |-> <<"medium", "high">>, light_tolerance |-> <<"artificial", "hybrid">>,
   temp_range |-> <<22, 30>>, humidity_range |-> <<65, 80>>,
   min_budget_per_sqm |-> 780, min_area |-> 30],
  [crop |-> "Raspberries", preferred_climate |-> <<"temperate_humid", "cold">>,
   water_needs |-> <<"medium">>, light_tolerance |-> <<"artificial", "hybrid">>,
   temp_range |-> <<14, 24>>, humidity_range |-> <<60, 75>>,
   min_budget_per_sqm |-> 720, min_area |-> 20],
  [crop |-> "Strawberries", preferred_climate |-> <<"temperate_humid", "temperate_dry">>,
   water_needs |-> <<"medium", "high">>, light_tolerance |-> <<"artificial", "hybrid">>,
   temp_range |-> <<16, 24>>, humidity_range |-> <<60, 75>>,
   min_budget_per_sqm |-> 600, min_area |-> 15],
  [crop |-> "Beets", preferred_climate |-> <<"temperate_humid", "cold">>,
   water_needs |-> <<"medium">>, light_tolerance |-> <<"artificial", "hybrid">>,
   temp_range |-> <<12, 22>>, humidity_range |-> <<60, 75>>,
   min_budget_per_sqm |-> 280, min_area |-> 6],
  [crop |-> "Carrots", preferred_climate |-> <<"temperate_humid", "temperate_dry">>,
   water_needs |-> <<"medium">>, light_tolerance |-> <<"artificial", "hybrid">>,
   temp_range |-> <<14, 24>>, humidity_range |-> <<55, 70>>,
   min_budget_per_sqm |-> 300, min_area |-> 8],
  [crop |-> "Daikon Radish", preferred_climate |-> <<"temperate_humid", "cold">>,
   water_needs |-> <<"medium">>, light_tolerance |-> <<"artificial", "hybrid">>,
   temp_range |-> <<12, 22>>, humidity_range |-> <<60, 75>>,
   min_budget_per_sqm |-> 260, min_area |-> 10],
  [crop |-> "Garlic", preferred_climate |-> <<"temperate_humid", "temperate_dry">>,
   water_needs |-> <<"low", "medium">>, light_tolerance |-> <<"artificial", "hybrid">>,
   temp_range |-> <<16, 26>>, humidity_range |-> <<50, 65>>,
   min_budget_per_sqm |-> 420, min_area |-> 3],
  [crop |-> "Ginger", preferred_climate |-> <<"tropical_humid">>,
   water_needs |-> <<"medium", "high">>, light_tolerance |-> <<"artificial", "hybrid">>,
   temp_range |-> <<22, 30>>, humidity_range |-> <<70, 85>>,
   min_budget_per_sqm |-> 580, min_area |-> 8],
  [crop |-> "Onions", preferred_climate |-> <<"temperate_humid", "temperate_dry">>,
   water_needs |-> <<"medium">>, light_tolerance |-> <<"artificial", "hybrid">>,
   temp_range |-> <<16, 26>>, humidity_range |-> <<55, 70>>,
   min_budget_per_sqm |-> 320, min_area |-> 6],
  [crop |-> "Potatoes", preferred_climate |-> <<"temperate_humid", "cold">>,
   water_needs |-> <<"medium">>, light_tolerance |-> <<"artificial", "hybrid">>,
   temp_range |-> <<14, 24>>, humidity_range |-> <<60, 75>>,
   min_budget_per_sqm |-> 380, min_area |-> 15],
  [crop |-> "Radishes", preferred_climate |-> <<"temperate_humid", "cold">>,
   water_needs |-> <<"medium">>, light_tolerance |-> <<"artificial", "hybrid">>,
   temp_range |-> <<12, 22>>, humidity_range |-> <<60, 75>>,
   min_budget_per_sqm |-> 220, min_area |-> 3],
  [crop |-> "Sweet Potatoes", preferred_climate |-> <<"tropical_humid", "tropical_dry">>,
   water_needs |-> <<"medium">>, light_tolerance |-> <<"artificial", "hybrid">>,
   temp_range |-> <<20, 30>>, humidity_range |-> <<60, 75>>,
   min_budget_per_sqm |-> 420, min_area |-> 18],
  [crop |-> "Turnips", preferred_climate |-> <<"temperate_humid", "cold">>,
   water_needs |-> <<"medium">>, light_tolerance |-> <<"artificial", "hybrid">>,
   temp_range |-> <<12, 22>>, humidity_range |-> <<60, 75>>,
   min_budget_per_sqm |-> 240, min_area |-> 5],
  [crop |-> "Asparagus", preferred_climate |-> <<"temperate_humid">>,
   water_needs |-> <<"medium", "high">>, light_tolerance |-> <<"artificial", "hybrid">>,
   temp_range |-> <<16, 24>>, humidity_range |-> <<60, 75>>,
   min_budget_per_sqm |-> 650, min_area |-> 25],
  [crop |-> "Broccoli", preferred_climate |-> <<"temperate_humid", "cold">>,
   water_needs |-> <<"medium", "high">>, light_tolerance |-> <<"artificial", "hybrid">>,
   temp_range |-> <<14, 22>>, humidity_range |-> <<65, 80>>,
   min_budget_per_sqm |-> 380, min_area |-> 10],
  [crop |-> "Brussels Sprouts", preferred_climate |-> <<"cold", "temperate_humid">>,
   water_needs |-> <<"medium", "high">>, light_tolerance |-> <<"artificial", "hybrid">>,
   temp_range |-> <<10, 20>>, humidity_range |-> <<65, 80>>,
   min_budget_per_sqm |-> 420, min_area |-> 12],
  [crop |-> "Cauliflower", preferred_climate |-> <<"temperate_humid", "cold">>,
   water_needs |-> <<"medium", "high">>, light_tolerance |-> <<"artificial", "hybrid">>,
   temp_range |-> <<14, 22>>, humidity_range |-> <<65, 80>>,
   min_budget_per_sqm |-> 400, min_area |-> 12],
  [crop |-> "Celery", preferred_climate |-> <<"temperate_humid">>,
   water_needs |-> <<"high">>, light_tolerance |-> <<"artificial", "hybrid">>,
   temp_range |-> <<16, 24>>, humidity_range |-> <<70, 85>>,
   min_budget_per_sqm |-> 450, min_area |-> 8],
  [crop |-> "Corn", preferred_climate |-> <<"temperate_humid", "tropical_humid">>,
   water_needs |-> <<"medium", "high">>, light_tolerance |-> <<"artificial", "hybrid">>,
   temp_range |-> <<18, 30>>, humidity_range |-> <<60, 75>>,
   min_budget_per_sqm |-> 520, min_area |-> 30],
  [crop |-> "Leeks", preferred_climate |-> <<"temperate_humid", "cold">>,
   water_needs |-> <<"medium">>, light_tolerance |-> <<"artificial", "hybrid">>,
   temp_range |-> <<14, 24>>, humidity_range |-> <<60, 75>>,
   min_budget_per_sqm |-> 340, min_area |-> 8],
  [crop |-> "Mushrooms", preferred_climate |-> <<"temperate_humid">>,
   water_needs |-> <<"high">>, light_tolerance |-> <<"artificial">>,
   temp_range |-> <<16, 24>>, humidity_range |-> <<80, 95>>,
   min_budget_per_sqm |-> 680, min_area |-> 10],
  [crop |-> "Scallions", preferred_climate |-> <<"temperate_humid", "temperate_dry">>,
   water_needs |-> <<"medium">>, light_tolerance |-> <<"artificial", "hybrid">>,
   temp_range |-> <<16, 26>>, humidity_range |-> <<55, 70>>,
   min_budget_per_sqm |-> 280, min_area |-> 2],
  [crop |-> "Shallots", preferred_climate |-> <<"temperate_humid", "temperate_dry">>,
   water_needs |-> <<"low", "medium">>, light_tolerance |-> <<"artificial", "hybrid">>,
   temp_range |-> <<16, 26>>, humidity_range |-> <<50, 65>>,
   min_budget_per_sqm |-> 360, min_area |-> 4]
  >>

\* water levels without 'high'
WaterLevelsLowMedium == <<"low", "medium">>

\* lines 160-162, in the order of the lists
climate_zone_list ==
    <<"cold", "temperate_humid", "temperate_dry", "tropical_humid", "tropical_dry">>
water_level_list == <<"low", "medium", "high">>
light_type_list == <<"natural", "artificial", "hybrid">>

\* random.random() as a numerator over DrawSteps
Fractions == 0..DrawSteps

\* the draws of random.choice for the lists of one sample: one index, taken
\* modulo the length of each list
ChoiceDraws(lists) ==
    0..(CHOOSE n \in 0..5 :
          /\ \A i \in 1..Len(lists) : Len(lists[i]) <= n + 1
          /\ \E i \in 1..Len(lists) : Len(lists[i]) = n + 1)

random_choice(seq, c) == seq[(c % Len(seq)) + 1]

\* a + (b - a) * random(), in units of 1/DrawSteps
random_uniform(a, b, u) == a * DrawSteps + (b - a) * u

\* an int of a..b
random_randint(a, b, u) == a + ((b - a) * u) \div DrawSteps

\* a positive sample whose temperature is drawn from the global range
PositiveTemperatureGlobalRange(profile, u) == random_uniform(5, 35, u)

\* line 174
PositiveTemperature(profile, u) ==
    random_uniform(profile.temp_range[1], profile.temp_range[2], u)

\* lines 170-189
PositiveSampleOf(profile, c, u) ==
    [climate_zone |-> random_choice(profile.preferred_climate, c),
     water_availability |-> random_choice(profile.water_needs, c),
     light_access |-> random_choice(profile.light_tolerance, c),
     area_size |-> random_uniform(profile.min_area, 200, u),
     budget_per_sqm |-> random_uniform(profile.min_budget_per_sqm, 1000, u),
     temperature |-> PositiveTemperature(profile, u),
     humidity |-> random_randint(profile.humidity_range[1],
                                 profile.humidity_range[2], u),
     crop |-> profile.crop]

\* negative samples drawn from every climate zone
NegativeClimatesAny(profile) == climate_zone_list

\* line 194: the zones that are not preferred
NegativeClimates(profile) ==
    SelectSeq(climate_zone_list, LAMBDA z : ~Seen(profile.preferred_climate, z))

\* line 195: the water levels that are not needed
NegativeWaters(profile) ==
    SelectSeq(water_level_list, LAMBDA w : ~Seen(profile.water_needs, w))

\* line 196
NegativeLights(profile) ==
    IF ~Seen(profile.light_tolerance, "natural") THEN <<"natural">>
    ELSE light_type_list

\* lines 199-202
NegativeTemperature(profile, below, u) ==
    IF below THEN random_uniform(5, profile.temp_range[1] - 2, u)
    ELSE random_uniform(profile.temp_range[2] + 3, 35, u)

\* lines 194-217; min_budget_per_sqm is a multiple of 5 in every row
NegativeSampleOf(profile, c, u, below) ==
    [climate_zone |-> random_choice(NegativeClimates(profile), c),
     water_availability |-> random_choice(NegativeWaters(profile), c),
     light_access |-> random_choice(NegativeLights(profile), c),
     area_size |-> random_uniform(1, 300, u),
     budget_per_sqm |->
         random_uniform(50, (profile.min_budget_per_sqm * 4) \div 5, u),
     temperature |-> NegativeTemperature(profile, below, u),
     humidity |-> random_randint(20, 95, u),
     crop |-> profile.crop]

\* lines 221-239
GlobalSampleOf(c, u) ==
    [climate_zone |-> random_choice(climate_zone_list, c),
     water_availability |-> random_choice(water_level_list, c),
     light_access |-> random_choice(light_type_list, c),
     area_size |-> random_uniform(1, 500, u),
     budget_per_sqm |-> random_uniform(50, 1000, u),
     temperature |-> random_uniform(5, 35, u),
     humidity |-> random_randint(20, 95, u),
     crop |-> random_choice(crop_profiles, c).crop]

NoSample ==
    [climate_zone |-> "", water_availability |-> "", light_access |-> "",
     area_size |-> 0, budget_per_sqm |-> 0, temperature |-> 0, humidity |-> 0,
     crop |-> ""]

\* the position of the generator: the loop it is in, the row of the table,
\* the samples this loop has appended; and which loop appended the last
\* sample, from which row
GenAt(phase, i, k, appended, of) ==
    [phase |-> phase, i |-> i, k |-> k, appended |-> appended, of |-> of]

\* random.choice of an empty list, random.randint of an empty range
Raised(appended, of) == GenAt("raised", 0, 0, appended, of)

-----------------------------------------------------------------------------
(* generate_yield_prediction_data, lines 244-472.  The yields, variances   *)
(* and sensitivities of the table are in tenths; area_size, light_intensity *)
(* and temperature of a sample are in units of 1/DrawSteps; the factors     *)
(* and the yield and the days before rounding are kept to three decimals,   *)
(* in thousandths.                                                           *)

\* line 382: the length of the loop
YieldSamplesPerCrop == 100

\* a yield table that knows the first crop only
YieldProfilesFirstRowOnly ==
  <<
  [crop |-> "Arugula", base_yield_per_sqm |-> 28, yield_variance |-> 7,
   base_growth_days |-> 25, growth_variance |-> 6, light_sensitivity |-> 11,
   nutrient_sensitivity |-> 12, water_sensitivity |-> 13]
  >>

\* lines 251-376, in the order of the dict
yield_profiles ==
  <<
  [crop |-> "Arugula", base_yield_per_sqm |-> 28, yield_variance |-> 7,
   base_growth_days |-> 25, growth_variance |-> 6, light_sensitivity |-> 11,
   nutrient_sensitivity |-> 12, water_sensitivity |-> 13],
  [crop |-> "Asian Greens", base_yield_per_sqm |-> 24, yield_variance |-> 6,
   base_growth_days |-> 35, growth_variance |-> 8, light_sensitivity |-> 12,
   nutrient_sensitivity |-> 13, water_sensitivity |-> 14],
  [crop |-> "Baby Bok Choy", base_yield_per_sqm |-> 32, yield_variance |-> 8,
   base_growth_days |-> 30, growth_variance |-> 7, light_sensitivity |-> 11,
   nutrient_sensitivity |-> 12, water_sensitivity |-> 15],
  [crop |-> "Baby Lettuce", base_yield_per_sqm |-> 25, yield_variance |-> 6,
   base_growth_days |-> 28, growth_variance |-> 6, light_sensitivity |-> 12,
   nutrient_sensitivity |-> 11, water_sensitivity |-> 13],
  [crop |-> "Butter Lettuce", base_yield_per_sqm |-> 32, yield_variance |-> 8,
   base_growth_days |-> 40, growth_variance |-> 10, light_sensitivity |-> 12,
   nutrient_sensitivity |-> 12, water_sensitivity |-> 14],
  [crop |-> "Cabbage", base_yield_per_sqm |-> 45, yield_variance |-> 12,
   base_growth_days |-> 70, growth_variance |-> 15, light_sensitivity |-> 10,
   nutrient_sensitivity |-> 14, water_sensitivity |-> 16],
  [crop |-> "Chinese Cabbage", base_yield_per_sqm |-> 38, yield_variance |-> 10,
   base_growth_days |-> 50, growth_variance |-> 12, light_sensitivity |-> 11,
   nutrient_sensitivity |-> 13, water_sensitivity |-> 15],
  [crop |-> "Collard Greens", base_yield_per_sqm |-> 28, yield_variance |-> 7,
   base_growth_days |-> 45, growth_variance |-> 10, light_sensitivity |-> 10,
   nutrient_sensitivity |-> 13, water_sensitivity |-> 14],
  [crop |-> "Endive", base_yield_per_sqm |-> 22, yield_variance |-> 5,
   base_growth_days |-> 42, growth_variance |-> 10, light_sensitivity |-> 12,
   nutrient_sensitivity |-> 11, water_sensitivity |-> 12],
  [crop |-> "Escarole", base_yield_per_sqm |-> 26, yield_variance |-> 6,
   base_growth_days |-> 45, growth_variance |-> 10, light_sensitivity |-> 11,
   nutrient_sensitivity |-> 12, water_sensitivity |-> 13],
  [crop |-> "Iceberg Lettuce", base_yield_per_sqm |-> 40, yield_variance |-> 10,
   base_growth_days |-> 55, growth_variance |-> 12, light_sensitivity |-> 13,
   nutrient_sensitivity |-> 12, water_sensitivity |-> 16],
  [crop |-> "Kale", base_yield_per_sqm |-> 20, yield_variance |-> 5,
   base_growth_days |-> 40, growth_variance |-> 12, light_sensitivity |-> 10,
   nutrient_sensitivity |-> 13, water_sensitivity |-> 12],
  [crop |-> "Lettuce", base_yield_per_sqm |-> 30, yield_variance |-> 8,
   base_growth_days |-> 35, growth_variance |-> 10, light_sensitivity |-> 12,
   nutrient_sensitivity |-> 11, water_sensitivity |-> 13],
  [crop |-> "Mizuna", base_yield_per_sqm |-> 24, yield_variance |-> 6,
   base_growth_days |-> 30, growth_variance |-> 8, light_sensitivity |-> 11,
   nutrient_sensitivity |-> 12, water_sensitivity |-> 13],
  [crop |-> "Mustard Greens", base_yield_per_sqm |-> 22, yield_variance |-> 5,
   base_growth_days |-> 28, growth_variance |-> 7, light_sensitivity |-> 11,
   nutrient_sensitivity |-> 12, water_sensitivity |-> 12],
  [crop |-> "Oak Leaf Lettuce", base_yield_per_sqm |-> 28, yield_variance |-> 7,
   base_growth_days |-> 38, growth_variance |-> 9, light_sensitivity |-> 12,
   nutrient_sensitivity |-> 11, water_sensitivity |-> 13],
  [crop |-> "Radicchio", base_yield_per_sqm |-> 24, yield_variance |-> 6,
   base_growth_days |-> 48, growth_variance |-> 12, light_sensitivity |-> 12,
   nutrient_sensitivity |-> 12, water_sensitivity |-> 12],
  [crop |-> "Red Lettuce", base_yield_per_sqm |-> 29, yield_variance |-> 7,
   base_growth_days |-> 36, growth_variance |-> 9, light_sensitivity |-> 13,
   nutrient_sensitivity |-> 11, water_sensitivity |-> 13],
  [crop |-> "Romaine Lettuce", base_yield_per_sqm |-> 34, yield_variance |-> 8,
   base_growth_days |-> 42, growth_variance |-> 10, light_sensitivity |-> 12,
   nutrient_sensitivity |-> 12, water_sensitivity |-> 14],
  [crop |-> "Spinach", base_yield_per_sqm |-> 25, yield_variance |-> 6,
   base_growth_days |-> 30, growth_variance |-> 8, light_sensitivity |-> 11,
   nutrient_sensitivity |-> 12, water_sensitivity |-> 14],
  [crop |-> "Swiss Chard", base_yield_per_sqm |-> 30, yield_variance |-> 8,
   base_growth_days |-> 38, growth_variance |-> 10, light_sensitivity |-> 11,
   nutrient_sensitivity |-> 13, water_sensitivity |-> 14],
  [crop |-> "Tatsoi", base_yield_per_sqm |-> 26, yield_variance |-> 6,
   base_growth_days |-> 32, growth_variance |-> 8, light_sensitivity |-> 11,
   nutrient_sensitivity |-> 12, water_sensitivity |-> 13],
  [crop |-> "Turnip Greens", base_yield_per_sqm |-> 22, yield_variance |-> 5,
   base_growth_days |-> 35, growth_variance |-> 8, light_sensitivity |-> 10,
   nutrient_sensitivity |-> 12, water_sensitivity |-> 13],
  [crop |-> "Watercress", base_yield_per_sqm |-> 18, yield_variance |-> 4,
   base_growth_days |-> 25, growth_variance |-> 6, light_sensitivity |-> 10,
   nutrient_sensitivity |-> 11, water_sensitivity |-> 18],
  [crop |-> "Anise", base_yield_per_sqm |-> 12, yield_variance |-> 3,
   base_growth_days |-> 60, growth_variance |-> 15, light_sensitivity |-> 13,
   nutrient_sensitivity |-> 14, water_sensitivity |-> 10],
  [crop |-> "Basil", base_yield_per_sqm |-> 20, yield_variance |-> 5,
   base_growth_days |-> 28, growth_variance |-> 7, light_sensitivity |-> 13,
   nutrient_sensitivity |-> 14, water_sensitivity |-> 12],
  [crop |-> "Bay Leaves", base_yield_per_sqm |-> 8, yield_variance |-> 2,
   base_growth_days |-> 90, growth_variance |-> 20, light_sensitivity |-> 12,
   nutrient_sensitivity |-> 13, water_sensitivity |-> 9],
  [crop |-> "Chervil", base_yield_per_sqm |-> 14, yield_variance |-> 3,
   base_growth_days |-> 35, growth_variance |-> 8, light_sensitivity |-> 12,
   nutrient_sensitivity |-> 13, water_sensitivity |-> 12],
  [crop |-> "Chives", base_yield_per_sqm |-> 18, yield_variance |-> 4,
   base_growth_days |-> 30, growth_variance |-> 7, light_sensitivity |-> 11,
   nutrient_sensitivity |-> 12, water_sensitivity |-> 12],
  [crop |-> "Cilantro", base_yield_per_sqm |-> 16, yield_variance |-> 4,
   base_growth_days |-> 25, growth_variance |-> 6, light_sensitivity |-> 12,
   nutrient_sensitivity |-> 13, water_sensitivity |-> 12],
  [crop |-> "Dill", base_yield_per_sqm |-> 14, yield_variance |-> 3,
   base_growth_days |-> 40, growth_variance |-> 10, light_sensitivity |-> 12,
   nutrient_sensitivity |-> 13, water_sensitivity |-> 12],
  [crop |-> "Fennel", base_yield_per_sqm |-> 22, yield_variance |-> 5,
   base_growth_days |-> 50, growth_variance |-> 12, light_sensitivity |-> 13,
   nutrient_sensitivity |-> 14, water_sensitivity |-> 12],
  [crop |-> "Herbs", base_yield_per_sqm |-> 15, yield_variance |-> 4,
   base_growth_days |-> 25, growth_variance |-> 8, light_sensitivity |-> 14,
   nutrient_sensitivity |-> 15, water_sensitivity |-> 11],
  [crop |-> "Lavender", base_yield_per_sqm |-> 10, yield_variance |-> 2,
   base_growth_days |-> 75, growth_variance |-> 18, light_sensitivity |-> 14,
   nutrient_sensitivity |-> 12, water_sensitivity |-> 8],
  [crop |-> "Lemon Balm", base_yield_per_sqm |-> 16, yield_variance |-> 4,
   base_growth_days |-> 35, growth_variance |-> 8, light_sensitivity |-> 13,
   nutrient_sensitivity |-> 13, water_sensitivity |-> 12],
  [crop |-> "Lemon Thyme", base_yield_per_sqm |-> 12, yield_variance |-> 3,
   base_growth_days |-> 45, growth_variance |-> 10, light_sensitivity |-> 14,
   nutrient_sensitivity |-> 14, water_sensitivity |-> 10],
  [crop |-> "Marjoram", base_yield_per_sqm |-> 14, yield_variance |-> 3,
   base_growth_days |-> 40, growth_variance |-> 10, light_sensitivity |-> 13,
   nutrient_sensitivity |-> 14, water_sensitivity |-> 11],
  [crop |-> "Mint", base_yield_per_sqm |-> 18, yield_variance |-> 4,
   base_growth_days |-> 32, growth_variance |-> 8, light_sensitivity |-> 12,
   nutrient_sensitivity |-> 13, water_sensitivity |-> 14],
  [crop |-> "Oregano", base_yield_per_sqm |-> 16, yield_variance |-> 4,
   base_growth_days |-> 38, growth_variance |-> 9, light_sensitivity |-> 14,
   nutrient_sensitivity |-> 14, water_sensitivity |-> 10],
  [crop |-> "Parsley", base_yield_per_sqm |-> 18, yield_variance |-> 4,
   base_growth_days |-> 30, growth_variance |-> 7, light_sensitivity |-> 12,
   nutrient_sensitivity |-> 13, water_sensitivity |-> 13],
  [crop |-> "Peppermint", base_yield_per_sqm |-> 16, yield_variance |-> 4,
   base_growth_days |-> 34, growth_variance |-> 8, light_sensitivity |-> 12,
   nutrient_sensitivity |-> 13, water_sensitivity |-> 14],
  [crop |-> "Rosemary", base_yield_per_sqm |-> 10, yield_variance |-> 2,
   base_growth_days |-> 65, growth_variance |-> 15, light_sensitivity |-> 14,
   nutrient_sensitivity |-> 13, water_sensitivity |-> 8],
  [crop |-> "Sage", base_yield_per_sqm |-> 12, yield_variance |-> 3,
   base_growth_days |-> 50, growth_variance |-> 12, light_sensitivity |-> 13,
   nutrient_sensitivity |-> 14, water_sensitivity |-> 10],
  [crop |-> "Spearmint", base_yield_per_sqm |-> 17, yield_variance |-> 4,
   base_growth_days |-> 33, growth_variance |-> 8, light_sensitivity |-> 12,
   nutrient_sensitivity |-> 13, water_sensitivity |-> 14],
  [crop |-> "Tarragon", base_yield_per_sqm |-> 14, yield_variance |-> 3,
   base_growth_days |-> 42, growth_variance |-> 10, light_sensitivity |-> 13,
   nutrient_sensitivity |-> 14, water_sensitivity |-> 11],
  [crop |-> "Thai Basil", base_yield_per_sqm |-> 22, yield_variance |-> 5,
   base_growth_days |-> 30, growth_variance |-> 7, light_sensitivity |-> 14,
   nutrient_sensitivity |-> 15, water_sensitivity |-> 12],
  [crop |-> "Thyme", base_yield_per_sqm |-> 12, yield_variance |-> 3,
   base_growth_days |-> 45, growth_variance |-> 10, light_sensitivity |-> 14,
   nutrient_sensitivity |-> 14, water_sensitivity |-> 10],
  [crop |-> "Alfalfa Microgreens", base_yield_per_sqm |-> 38, yield_variance |-> 9,
   base_growth_days |-> 10, growth_variance |-> 3, light_sensitivity |-> 15,
   nutrient_sensitivity |-> 12, water_sensitivity |-> 14],
  [crop |-> "Arugula Microgreens", base_yield_per_sqm |-> 42, yield_variance |-> 10,
   base_growth_days |-> 8, growth_variance |-> 2, light_sensitivity |-> 16,
   nutrient_sensitivity |-> 13, water_sensitivity |-> 15],
  [crop |-> "Beet Microgreens", base_yield_per_sqm |-> 36, yield_variance |-> 8,
   base_growth_days |-> 12, growth_variance |-> 3, light_sensitivity |-> 14,
   nutrient_sensitivity |-> 13, water_sensitivity |-> 14],
  [crop |-> "Broccoli Microgreens", base_yield_per_sqm |-> 44, yield_variance |-> 10,
   base_growth_days |-> 10, growth_variance |-> 3, light_sensitivity |-> 16,
   nutrient_sensitivity |-> 14, water_sensitivity |-> 15],
  [crop |-> "Cabbage Microgreens", base_yield_per_sqm |-> 40, yield_variance |-> 9,
   base_growth_days |-> 9, growth_variance |-> 2, light_sensitivity |-> 15,
   nutrient_sensitivity |-> 13, water_sensitivity |-> 14],
  [crop |-> "Chia Microgreens", base_yield_per_sqm |-> 32, yield_variance |-> 7,
   base_growth_days |-> 14, growth_variance |-> 4, light_sensitivity |-> 17,
   nutrient_sensitivity |-> 12, water_sensitivity |-> 16],
  [crop |-> "Cilantro Microgreens", base_yield_per_sqm |-> 38, yield_variance |-> 9,
   base_growth_days |-> 12, growth_variance |-> 3, light_sensitivity |-> 15,
   nutrient_sensitivity |-> 13, water_sensitivity |-> 14],
  [crop |-> "Kale Microgreens", base_yield_per_sqm |-> 42, yield_variance |-> 10,
   base_growth_days |-> 10, growth_variance |-> 3, light_sensitivity |-> 16,
   nutrient_sensitivity |-> 14, water_sensitivity |-> 15],
  [crop |-> "Microgreens", base_yield_per_sqm |-> 40, yield_variance |-> 10,
   base_growth_days |-> 12, growth_variance |-> 4, light_sensitivity |-> 16,
   nutrient_sensitivity |-> 13, water_sensitivity |-> 15],
  [crop |-> "Mustard Microgreens", base_yield_per_sqm |-> 40, yield_variance |-> 9,
   base_growth_days |-> 8, growth_variance |-> 2, light_sensitivity |-> 15,
   nutrient_sensitivity |-> 13, water_sensitivity |-> 14],
  [crop |-> "Pea Microgreens", base_yield_per_sqm |-> 50, yield_variance |-> 12,
   base_growth_days |-> 12, growth_variance |-> 3, light_sensitivity |-> 14,
   nutrient_sensitivity |-> 12, water_sensitivity |-> 13],
  [crop |-> "Radish Microgreens", base_yield_per_sqm |-> 45, yield_variance |-> 10,
   base_growth_days |-> 7, growth_variance |-> 2, light_sensitivity |-> 16,
   nutrient_sensitivity |-> 13, water_sensitivity |-> 14],
  [crop |-> "Sunflower Microgreens", base_yield_per_sqm |-> 48, yield_variance |-> 11,
   base_growth_days |-> 10, growth_variance |-> 3, light_sensitivity |-> 15,
   nutrient_sensitivity |-> 12, water_sensitivity |-> 13],
  [crop |-> "Wheatgrass", base_yield_per_sqm |-> 35, yield_variance |-> 8,
   base_growth_days |-> 14, growth_variance |-> 4, light_sensitivity |-> 14,
   nutrient_sensitivity |-> 12, water_sensitivity |-> 15],
  [crop |-> "Artichokes", base_yield_per_sqm |-> 35, yield_variance |-> 9,
   base_growth_days |-> 120, growth_variance |-> 25, light_sensitivity |-> 14,
   nutrient_sensitivity |-> 16, water_sensitivity |-> 15],
  [crop |-> "Beans", base_yield_per_sqm |-> 42, yield_variance |-> 10,
   base_growth_days |-> 55, growth_variance |-> 12, light_sensitivity |-> 13,
   nutrient_sensitivity |-> 12, water_sensitivity |-> 14],
  [crop |-> "Bell Peppers", base_yield_per_sqm |-> 55, yield_variance |-> 13,
   base_growth_days |-> 65, growth_variance |-> 12, light_sensitivity |-> 16,
   nutrient_sensitivity |-> 15, water_sensitivity |-> 13],
  [crop |-> "Cherry Tomatoes", base_yield_per_sqm |-> 65, yield_variance |-> 15,
   base_growth_days |-> 65, growth_variance |-> 12, light_sensitivity |-> 17,
   nutrient_sensitivity |-> 16, water_sensitivity |-> 15],
  [crop |-> "Chili Peppers", base_yield_per_sqm |-> 38, yield_variance |-> 9,
   base_growth_days |-> 80, growth_variance |-> 15, light_sensitivity |-> 18,
   nutrient_sensitivity |-> 15, water_sensitivity |-> 12],
  [crop |-> "Cucumbers", base_yield_per_sqm |-> 100, yield_variance |-> 25,
   base_growth_days |-> 60, growth_variance |-> 10, light_sensitivity |-> 15,
   nutrient_sensitivity |-> 14, water_sensitivity |-> 18],
  [crop |-> "Eggplant", base_yield_per_sqm |-> 58, yield_variance |-> 14,
   base_growth_days |-> 85, growth_variance |-> 15, light_sensitivity |-> 17,
   nutrient_sensitivity |-> 16, water_sensitivity |-> 14],
  [crop |-> "Green Beans", base_yield_per_sqm |-> 40, yield_variance |-> 9,
   base_growth_days |-> 52, growth_variance |-> 10, light_sensitivity |-> 13,
   nutrient_sensitivity |-> 12, water_sensitivity |-> 13],
  [crop |-> "Hot Peppers", base_yield_per_sqm |-> 32, yield_variance |-> 8,
   base_growth_days |-> 85, growth_variance |-> 18, light_sensitivity |-> 19,
   nutrient_sensitivity |-> 14, water_sensitivity |-> 11],
  [crop |-> "Okra", base_yield_per_sqm |-> 45, yield_variance |-> 11,
   base_growth_days |-> 60, growth_variance |-> 12, light_sensitivity |-> 16,
   nutrient_sensitivity |-> 13, water_sensitivity |-> 12],
  [crop |-> "Peas", base_yield_per_sqm |-> 38, yield_variance |-> 9,
   base_growth_days |-> 45, growth_variance |-> 10, light_sensitivity |-> 12,
   nutrient_sensitivity |-> 11, water_sensitivity |-> 13],
  [crop |-> "Peppers", base_yield_per_sqm |-> 60, yield_variance |-> 15,
   base_growth_days |-> 70, growth_variance |-> 12, light_sensitivity |-> 17,
   nutrient_sensitivity |-> 16, water_sensitivity |-> 14],
  [crop |-> "Snow Peas", base_yield_per_sqm |-> 35, yield_variance |-> 8,
   base_growth_days |-> 40, growth_variance |-> 8, light_sensitivity |-> 12,
   nutrient_sensitivity |-> 11, water_sensitivity |-> 14],
  [crop |-> "Sweet Peppers", base_yield_per_sqm |-> 58, yield_variance |-> 14,
   base_growth_days |-> 68, growth_variance |-> 12, light_sensitivity |-> 16,
   nutrient_sensitivity |-> 15, water_sensitivity |-> 13],
  [crop |-> "Tomatoes", base_yield_per_sqm |-> 80, yield_variance |-> 20,
   base_growth_days |-> 75, growth_variance |-> 15, light_sensitivity |-> 18,
   nutrient_sensitivity |-> 17, water_sensitivity |-> 16],
  [crop |-> "Zucchini", base_yield_per_sqm |-> 72, yield_variance |-> 18,
   base_growth_days |-> 55, growth_variance |-> 10, light_sensitivity |-> 14,
   nutrient_sensitivity |-> 13, water_sensitivity |-> 15],
  [crop |-> "Blueberries", base_yield_per_sqm |-> 25, yield_variance |-> 6,
   base_growth_days |-> 150, growth_variance |-> 30, light_sensitivity |-> 13,
   nutrient_sensitivity |-> 15, water_sensitivity |-> 14],
  [crop |-> "Cranberries", base_yield_per_sqm |-> 18, yield_variance |-> 4,
   base_growth_days |-> 180, growth_variance |-> 35, light_sensitivity |-> 12,
   nutrient_sensitivity |-> 14, water_sensitivity |-> 18],
  [crop |-> "Currants", base_yield_per_sqm |-> 22, yield_variance |-> 5,
   base_growth_days |-> 120, growth_variance |-> 25, light_sensitivity |-> 12,
   nutrient_sensitivity |-> 13, water_sensitivity |-> 13],
  [crop |-> "Elderberries", base_yield_per_sqm |-> 15, yield_variance |-> 4,
   base_growth_days |-> 140, growth_variance |-> 30, light_sensitivity |-> 11,
   nutrient_sensitivity |-> 13, water_sensitivity |-> 12],
  [crop |-> "Gooseberries", base_yield_per_sqm |-> 20, yield_variance |-> 5,
   base_growth_days |-> 110, growth_variance |-> 20, light_sensitivity |-> 12,
   nutrient_sensitivity |-> 13, water_sensitivity |-> 13],
  [crop |-> "Goji Berries", base_yield_per_sqm |-> 12, yield_variance |-> 3,
   base_growth_days |-> 160, growth_variance |-> 35, light_sensitivity |-> 14,
   nutrient_sensitivity |-> 14, water_sensitivity |-> 11],
  [crop |-> "Grapes", base_yield_per_sqm |-> 35, yield_variance |-> 9,
   base_growth_days |-> 200, growth_variance |-> 40, light_sensitivity |-> 16,
   nutrient_sensitivity |-> 15, water_sensitivity |-> 12],
  [crop |-> "Kiwi", base_yield_per_sqm |-> 42, yield_variance |-> 10,
   base_growth_days |-> 180, growth_variance |-> 35, light_sensitivity |-> 13,
   nutrient_sensitivity |-> 14, water_sensitivity |-> 14],
  [crop |-> "Lemons", base_yield_per_sqm |-> 85, yield_variance |-> 20,
   base_growth_days |-> 240, growth_variance |-> 50, light_sensitivity |-> 17,
   nutrient_sensitivity |-> 16, water_sensitivity |-> 13],
  [crop |-> "Limes", base_yield_per_sqm |-> 78, yield_variance |-> 18,
   base_growth_days |-> 220, growth_variance |-> 45, light_sensitivity |-> 18,
   nutrient_sensitivity |-> 15, water_sensitivity |-> 13],
  [crop |-> "Oranges", base_yield_per_sqm |-> 120, yield_variance |-> 30,
   base_growth_days |-> 280, growth_variance |-> 60, light_sensitivity |-> 18,
   nutrient_sensitivity |-> 17, water_sensitivity |-> 14],
  [crop |-> "Passion Fruit", base_yield_per_sqm |-> 65, yield_variance |-> 15,
   base_growth_days |-> 120, growth_variance |-> 25, light_sensitivity |-> 16,
   nutrient_sensitivity |-> 15, water_sensitivity |-> 15],
  [crop |-> "Raspberries", base_yield_per_sqm |-> 32, yield_variance |-> 8,
   base_growth_days |-> 100, growth_variance |-> 20, light_sensitivity |-> 13,
   nutrient_sensitivity |-> 14, water_sensitivity |-> 13],
  [crop |-> "Strawberries", base_yield_per_sqm |-> 50, yield_variance |-> 12,
   base_growth_days |-> 90, growth_variance |-> 20, light_sensitivity |-> 14,
   nutrient_sensitivity |-> 18, water_sensitivity |-> 15],
  [crop |-> "Beets", base_yield_per_sqm |-> 45, yield_variance |-> 11,
   base_growth_days |-> 60, growth_variance |-> 12, light_sensitivity |-> 11,
   nutrient_sensitivity |-> 12, water_sensitivity |-> 13],
  [crop |-> "Carrots", base_yield_per_sqm |-> 52, yield_variance |-> 12,
   base_growth_days |-> 75, growth_variance |-> 15, light_sensitivity |-> 12,
   nutrient_sensitivity |-> 13, water_sensitivity |-> 13],
  [crop |-> "Daikon Radish", base_yield_per_sqm |-> 68, yield_variance |-> 16,
   base_growth_days |-> 65, growth_variance |-> 12, light_sensitivity |-> 11,
   nutrient_sensitivity |-> 12, water_sensitivity |-> 14],
  [crop |-> "Garlic", base_yield_per_sqm |-> 22, yield_variance |-> 5,
   base_growth_days |-> 180, growth_variance |-> 30, light_sensitivity |-> 12,
   nutrient_sensitivity |-> 14, water_sensitivity |-> 11],
  [crop |-> "Ginger", base_yield_per_sqm |-> 38, yield_variance |-> 9,
   base_growth_days |-> 240, growth_variance |-> 50, light_sensitivity |-> 11,
   nutrient_sensitivity |-> 15, water_sensitivity |-> 16],
  [crop |-> "Onions", base_yield_per_sqm |-> 42, yield_variance |-> 10,
   base_growth_days |-> 120, growth_variance |-> 25, light_sensitivity |-> 12,
   nutrient_sensitivity |-> 13, water_sensitivity |-> 12],
  [crop |-> "Potatoes", base_yield_per_sqm |-> 85, yield_variance |-> 20,
   base_growth_days |-> 90, growth_variance |-> 18, light_sensitivity |-> 11,
   nutrient_sensitivity |-> 14, water_sensitivity |-> 13],
  [crop |-> "Radishes", base_yield_per_sqm |-> 32, yield_variance |-> 7,
   base_growth_days |-> 25, growth_variance |-> 5, light_sensitivity |-> 11,
   nutrient_sensitivity |-> 11, water_sensitivity |-> 13],
  [crop |-> "Sweet Potatoes", base_yield_per_sqm |-> 75, yield_variance |-> 18,
   base_growth_days |-> 110, growth_variance |-> 22, light_sensitivity |-> 13,
   nutrient_sensitivity |-> 14, water_sensitivity |-> 13],
  [crop |-> "Turnips", base_yield_per_sqm |-> 48, yield_variance |-> 11,
   base_growth_days |-> 55, growth_variance |-> 12, light_sensitivity |-> 10,
   nutrient_sensitivity |-> 12, water_sensitivity |-> 13],
  [crop |-> "Asparagus", base_yield_per_sqm |-> 28, yield_variance |-> 7,
   base_growth_days |-> 365, growth_variance |-> 60, light_sensitivity |-> 12,
   nutrient_sensitivity |-> 16, water_sensitivity |-> 15],
  [crop |-> "Broccoli", base_yield_per_sqm |-> 35, yield_variance |-> 8,
   base_growth_days |-> 65, growth_variance |-> 12, light_sensitivity |-> 13,
   nutrient_sensitivity |-> 14, water_sensitivity |-> 15],
  [crop |-> "Brussels Sprouts", base_yield_per_sqm |-> 30, yield_variance |-> 7,
   base_growth_days |-> 95, growth_variance |-> 20, light_sensitivity |-> 12,
   nutrient_sensitivity |-> 14, water_sensitivity |-> 15],
  [crop |-> "Cauliflower", base_yield_per_sqm |-> 42, yield_variance |-> 10,
   base_growth_days |-> 70, growth_variance |-> 15, light_sensitivity |-> 13,
   nutrient_sensitivity |-> 14, water_sensitivity |-> 16],
  [crop |-> "Celery", base_yield_per_sqm |-> 38, yield_variance |-> 9,
   base_growth_days |-> 85, growth_variance |-> 18, light_sensitivity |-> 12,
   nutrient_sensitivity |-> 13, water_sensitivity |-> 18],
  [crop |-> "Corn", base_yield_per_sqm |-> 65, yield_variance |-> 15,
   base_growth_days |-> 85, growth_variance |-> 15, light_sensitivity |-> 16,
   nutrient_sensitivity |-> 15, water_sensitivity |-> 14],
  [crop |-> "Leeks", base_yield_per_sqm |-> 32, yield_variance |-> 8,
   base_growth_days |-> 120, growth_variance |-> 25, light_sensitivity |-> 11,
   nutrient_sensitivity |-> 13, water_sensitivity |-> 13],
  [crop |-> "Mushrooms", base_yield_per_sqm |-> 120, yield_variance |-> 30,
   base_growth_days |-> 35, growth_variance |-> 8, light_sensitivity |-> 8,
   nutrient_sensitivity |-> 18, water_sensitivity |-> 19],
  [crop |-> "Scallions", base_yield_per_sqm |-> 28, yield_variance |-> 6,
   base_growth_days |-> 30, growth_variance |-> 6, light_sensitivity |-> 11,
   nutrient_sensitivity |-> 12, water_sensitivity |-> 12],
  [crop |-> "Shallots", base_yield_per_sqm |-> 35, yield_variance |-> 8,
   base_growth_days |-> 100, growth_variance |-> 20, light_sensitivity |-> 12,
   nutrient_sensitivity |-> 13, water_sensitivity |-> 11]
  >>

Min(a, b) == IF a <= b THEN a ELSE b

Abs(a) == IF a >= 0 THEN a ELSE -a

\* lines 396-398, light_intensity in units of 1/DrawSteps
LightFactor(profile, light_intensity) ==
    LET optimal_light == 400
        light_factor ==
            1000 + (profile.light_sensitivity * 100
                      * (light_intensity - optimal_light * DrawSteps))
                   \div (optimal_light * DrawSteps)
    IN  Max(300, Min(2000, light_factor))

\* line 401
NutrientFactor(profile, nutrients_level) ==
    500 + nutrients_level * 7 * profile.nutrient_sensitivity

\* a water factor without its lower cap
WaterFactorNoFloor(profile, water_frequency) ==
    Min(1800, 1000 + (profile.water_sensitivity * 100 * (water_frequency - 4)) \div 4)

\* lines 404-406
WaterFactor(profile, water_frequency) ==
    LET optimal_water == 4
        water_factor ==
            1000 + (profile.water_sensitivity * 100
                      * (water_frequency - optimal_water)) \div optimal_water
    IN  Max(400, Min(1800, water_factor))

\* lines 409-414
OptimalTemp(crop) ==
    IF crop \in {"Lettuce", "Spinach", "Kale"} THEN 20
    ELSE IF crop \in {"Herbs", "Basil", "Microgreens"} THEN 22
    ELSE 25

\* lines 416-417, temperature in units of 1/DrawSteps
TempFactor(crop, temperature) ==
    LET temp_diff == Abs(temperature - OptimalTemp(crop) * DrawSteps)
    IN  Max(500, 1000 - (temp_diff * 100) \div DrawSteps)

\* lines 420-425
OptimalHumidity(crop) ==
    IF crop \in {"Cucumbers", "Microgreens"} THEN 70
    ELSE IF crop \in {"Herbs", "Basil"} THEN 60
    ELSE 65

\* lines 427-428
HumidityFactor(crop, humidity) ==
    LET humidity_diff == Abs(humidity - OptimalHumidity(crop))
    IN  Max(600, 1000 - (humidity_diff * 1000) \div 30)

\* line 431
Co2Factor(co2_level) == Min(1500, (co2_level * 1000) \div 400)

\* lines 445-446
TempGrowthFactor(crop, temperature) ==
    LET temp_growth_factor ==
            1000 - ((temperature - OptimalTemp(crop) * DrawSteps) * 1000)
                   \div (20 * DrawSteps)
    IN  Max(700, Min(1300, temp_growth_factor))

\* line 448
LightGrowthFactor(light_intensity) ==
    Max(800, Min(1200, (400 * DrawSteps * 1000) \div light_intensity))

\* line 450
NutrientGrowthFactor(nutrients_level) ==
    Max(900, Min(1100, 1000 - ((nutrients_level - 5) * 1000) \div 10))

\* the locals of one turn of the loop, lines 384-457, for the environment
\* draw u and the variance draw v
YieldLocals(profile, u, v) ==
    LET crop == profile.crop
        light_intensity == random_uniform(200, 600, u)
        nutrients_level == random_randint(1, 10, u)
        water_frequency == random_randint(1, 8, u)
        temperature == random_uniform(15, 30, u)
        humidity == random_randint(40, 85, u)
        co2_level == random_randint(350, 1200, u)
        light_factor == LightFactor(profile, light_intensity)
        nutrient_factor == NutrientFactor(profile, nutrients_level)
        water_factor == WaterFactor(profile, water_frequency)
        temp_factor == TempFactor(crop, temperature)
        humidity_factor == HumidityFactor(crop, humidity)
        co2_factor == Co2Factor(co2_level)
        \* line 434, multiplied left to right
        yield_modifier ==
            ((((((((((light_factor * nutrient_factor) \div 1000)
                 * water_factor) \div 1000)
                 * temp_factor) \div 1000)
                 * humidity_factor) \div 1000)
                 * co2_factor) \div 1000)
        predicted_yield == (profile.base_yield_per_sqm * yield_modifier) \div 10
        yield_variance ==
            (random_uniform(-profile.yield_variance, profile.yield_variance, v)
                * 100) \div DrawSteps
        temp_growth_factor == TempGrowthFactor(crop, temperature)
        light_growth_factor == LightGrowthFactor(light_intensity)
        nutrient_growth_factor == NutrientGrowthFactor(nutrients_level)
        \* line 452
        growth_modifier ==
            ((((temp_growth_factor * light_growth_factor) \div 1000)
                 * nutrient_growth_factor) \div 1000)
        predicted_days == profile.base_growth_days * growth_modifier
        growth_variance ==
            (random_uniform(-profile.growth_variance, profile.growth_variance, v)
                * 1000) \div DrawSteps
    IN  [area_size |-> random_uniform(1, 200, u),
         light_intensity |-> light_intensity,
         nutrients_level |-> nutrients_level,
         water_frequency |-> water_frequency,
         temperature |-> temperature,
         humidity |-> humidity,
         co2_level |-> co2_level,
         light_factor |-> light_factor,
         nutrient_factor |-> nutrient_factor,
         water_factor |-> water_factor,
         temp_factor |-> temp_factor,
         humidity_factor |-> humidity_factor,
         co2_factor |-> co2_factor,
         predicted_yield |-> predicted_yield,
         final_yield |-> Max(100, predicted_yield + yield_variance),
         temp_growth_factor |-> temp_growth_factor,
         light_growth_factor |-> light_growth_factor,
         nutrient_growth_factor |-> nutrient_growth_factor,
         predicted_days |-> predicted_days,
         final_days |-> Max(10000, predicted_days + growth_variance)]

\* lines 459-470: the dict appended; yield_kg_per_sqm in hundredths
YieldSampleOf(profile, locals) ==
    [crop |-> profile.crop,
     area_size |-> locals.area_size,
     light_intensity |-> locals.light_intensity,
     nutrients_level |-> locals.nutrients_level,
     water_frequency |-> locals.water_frequency,
     temperature |-> locals.temperature,
     humidity |-> locals.humidity,
     co2_level |-> locals.co2_level,
     yield_kg_per_sqm |-> RoundHalfEven(locals.final_yield, 10),
     growth_time_days |-> RoundHalfEven(locals.final_days, 1000)]

\* the draws of the two variances: the two ends of their ranges
VarianceDraws == {0, DrawSteps}

\* line 163: no sample yet, the first row is next
DataInit ==
    /\ InitFields /\ ServingIdle /\ WeatherIdle /\ RequestIdle
    /\ gen = GenAt("positive", 1, 0, "none", 0)
    /\ sample = NoSample
    /\ factors = <<>>

\* lines 169-189: one turn of the loop of positive samples
PositiveSample ==
    /\ gen.phase = "positive"
    /\ LET profile == crop_profiles[gen.i]
       IN  IF profile.humidity_range[1] > profile.humidity_range[2]
           THEN gen' = Raised(gen.appended, gen.of) /\ sample' = sample
           ELSE \E c \in ChoiceDraws(<<profile.preferred_climate,
                                      profile.water_needs,
                                      profile.light_tolerance>>),
                   u \in Fractions :
                  /\ sample' = PositiveSampleOf(profile, c, u)
                  /\ gen' = IF gen.k + 1 < PositivesPerCrop
                            THEN GenAt("positive", gen.i, gen.k + 1,
                                       "positive", gen.i)
                            ELSE GenAt("negative", gen.i, 0, "positive", gen.i)
    /\ UNCHANGED <<pc, model_vars, call, ret, trace, confidence, suitability,
                   caller_args, serving_vars, weather_vars, factors,
                   request_vars>>

\* lines 192-217: one turn of the loop of negative samples
NegativeSample ==
    /\ gen.phase = "negative"
    /\ LET profile == crop_profiles[gen.i]
       IN  IF NegativeClimates(profile) = <<>> \/ NegativeWaters(profile) = <<>>
           THEN gen' = Raised(gen.appended, gen.of) /\ sample' = sample
           ELSE \E c \in ChoiceDraws(<<NegativeClimates(profile),
                                      NegativeWaters(profile),
                                      NegativeLights(profile)>>),
                   u \in Fractions, below \in BOOLEAN :
                  /\ sample' = NegativeSampleOf(profile, c, u, below)
                  /\ gen' = IF gen.k + 1 < NegativesPerCrop
                            THEN GenAt("negative", gen.i, gen.k + 1,
                                       "negative", gen.i)
                            ELSE IF gen.i < Len(crop_profiles)
                            THEN GenAt("positive", gen.i + 1, 0,
                                       "negative", gen.i)
                            ELSE GenAt("global", 0, 0, "negative", gen.i)
    /\ UNCHANGED <<pc, model_vars, call, ret, trace, confidence, suitability,
                   caller_args, serving_vars, weather_vars, factors,
                   request_vars>>

\* lines 220-239: one turn of the loop of cross-crop samples
GlobalSample ==
    /\ gen.phase = "global"
    /\ \E c \in ChoiceDraws(<<climate_zone_list, water_level_list,
                             light_type_list>>),
          u \in Fractions :
         /\ sample' = GlobalSampleOf(c, u)
         /\ gen' = IF gen.k + 1 < GlobalSamples
                   THEN GenAt("global", 0, gen.k + 1, "global", 0)
                   ELSE GenAt("yield", 1, 0, "global", 0)
    /\ UNCHANGED <<pc, model_vars, call, ret, trace, confidence, suitability,
                   caller_args, serving_vars, weather_vars, factors,
                   request_vars>>

\* lines 382-470: one turn of the loop of yield samples; after the last one
\* get_training_data returns both lists
YieldSample ==
    /\ gen.phase = "yield"
    /\ \E u \in Fractions, v \in VarianceDraws :
         LET profile == yield_profiles[gen.i]
             locals == YieldLocals(profile, u, v)
         IN  /\ factors' = locals
             /\ sample' = YieldSampleOf(profile, locals)
             /\ gen' = IF gen.k + 1 < YieldSamplesPerCrop
                       THEN GenAt("yield", gen.i, gen.k + 1, "yield", gen.i)
                       ELSE IF gen.i < Len(yield_profiles)
                       THEN GenAt("yield", gen.i + 1, 0, "yield", gen.i)
                       ELSE GenAt("returned", 0, 0, "yield", gen.i)
    /\ UNCHANGED <<pc, model_vars, call, ret, trace, confidence, suitability,
                   caller_args, serving_vars, weather_vars, request_vars>>

DataNext == PositiveSample \/ NegativeSample \/ GlobalSample \/ YieldSample

DataSpec == DataInit /\ [][DataNext]_vars

\* the row of the table the last sample was generated from
SampleProfile == crop_profiles[gen.of]

\* C18: for every crop of the profile table, each of its 50 positive
\* samples has climate_zone in the crop's preferred_climate,
\* water_availability in its water_needs, light_access in its
\* light_tolerance, temperature within [temp_range min, temp_range max],
\* humidity within [humidity_range min, humidity_range max], and the crop as
\* its label.
C18_PositiveSampleWithinProfile ==
    /\ gen.phase = "positive" => gen.k < 50
    /\ gen.appended = "positive" =>
         /\ Seen(SampleProfile.preferred_climate, sample.climate_zone)
         /\ Seen(SampleProfile.water_needs, sample.water_availability)
         /\ Seen(SampleProfile.light_tolerance, sample.light_access)
         /\ sample.temperature >= SampleProfile.temp_range[1] * DrawSteps
         /\ sample.temperature <= SampleProfile.temp_range[2] * DrawSteps
         /\ sample.humidity >= SampleProfile.humidity_range[1]
         /\ sample.humidity <= SampleProfile.humidity_range[2]
         /\ sample.crop = SampleProfile.crop

\* the fiftieth positive sample of the last row, at the top of its ranges
C18_Witness ==
    /\ gen = GenAt("negative", Len(crop_profiles), 0, "positive",
                   Len(crop_profiles))
    /\ sample.crop = crop_profiles[Len(crop_profiles)].crop
    /\ sample.temperature = SampleProfile.temp_range[2] * DrawSteps
    /\ sample.humidity = SampleProfile.humidity_range[2]

\* C19: for every crop of the profile table, each negative sample has a
\* temperature strictly outside [temp_range min - 2, temp_range max + 3]:
\* strictly below min - 2 or strictly above max + 3, also for the crops
\* whose temp_range max is 32.
C19_NegativeTemperatureStrictlyOutside ==
    gen.appended = "negative" =>
        \/ sample.temperature < (SampleProfile.temp_range[1] - 2) * DrawSteps
        \/ sample.temperature > (SampleProfile.temp_range[2] + 3) * DrawSteps

\* C20: for every crop, each of its 15 negative samples is labelled with
\* the crop's own name, has climate_zone outside the crop's
\* preferred_climate and water_availability outside its water_needs, and
\* has light_access 'natural' when 'natural' is not in the crop's
\* light_tolerance, otherwise one of the three light types.
C20_NegativeSampleOutsideProfile ==
    /\ gen.phase = "negative" => gen.k < 15
    /\ gen.appended = "negative" =>
         /\ sample.crop = SampleProfile.crop
         /\ ~Seen(SampleProfile.preferred_climate, sample.climate_zone)
         /\ Seen(climate_zone_list, sample.climate_zone)
         /\ ~Seen(SampleProfile.water_needs, sample.water_availability)
         /\ Seen(water_level_list, sample.water_availability)
         /\ ~Seen(SampleProfile.light_tolerance, "natural") =>
                sample.light_access = "natural"
         /\ Seen(SampleProfile.light_tolerance, "natural") =>
                sample.light_access \in {"natural", "artificial", "hybrid"}

\* a negative sample of a crop that tolerates natural light, drawn with
\* another light type and a climate zone the crop does not prefer
C20_Witness ==
    /\ gen.appended = "negative"
    /\ sample.crop = "Arugula"
    /\ Seen(SampleProfile.light_tolerance, "natural")
    /\ sample.light_access = "hybrid"
    /\ sample.climate_zone = "tropical_dry"
    /\ sample.water_availability = "low"

-----------------------------------------------------------------------------
(* Serving: the constructed instance answering calls, src/ml_models.py      *)
(* lines 113-239 and src/routes.py lines 48-56.  The fitted models are      *)
(* functions of their input array, fixed when the process starts to serve;  *)
(* a call is two steps of its thread: building the input array, then        *)
(* asking the models and building the result.                               *)

\* the request threads
Threads == {"t1", "t2"}

\* farm_params with a water_availability the encoder has not seen, and
\* farm_params without 'area_size'
UnseenWaterFarm ==
    [area_size |-> Num(24), budget |-> 4000,
     water_availability |-> "brackish", light_access |-> "artificial"]
NoAreaFarm ==
    [budget |-> 4000, water_availability |-> "medium",
     light_access |-> "artificial"]
HighWaterFarm == [WellFormedFarm EXCEPT !.water_availability = "high"]
UnseenLightFarm == [WellFormedFarm EXCEPT !.light_access = "neon"]

Call(op, crop, farm_params, weather_data) ==
    [op |-> op, crop |-> crop, farm_params |-> farm_params,
     weather_data |-> weather_data]

\* the calls the request handlers make
ServedCalls ==
    { Call("recommend_crops", "", f, FullWeather) :
          f \in {WellFormedFarm, UnseenWaterFarm, NoAreaFarm, HighWaterFarm,
                 UnseenLightFarm} } \cup
    { Call("predict_yield", crop, f, FullWeather) :
          crop \in {"Lettuce", "Dragonfruit"},
          f \in {WellFormedFarm, NoAreaFarm} }

\* the states _train_models can leave the instance in: nothing trained
\* (get_training_data raised), the classifier's fit raised, the yield
\* regressor's fit raised, everything fitted
Fields(cr, yp, gp, le, sc, cn) ==
    [crop_recommender |-> cr, yield_predictor |-> yp,
     growth_time_predictor |-> gp, label_encoders |-> le, scalers |-> sc,
     crop_names |-> cn]

ConstructedStates ==
    { Fields("None", "None", "None", {}, {}, <<>>),
      Fields("unfitted", "None", "None",
             {"climate_zone", "water_availability", "light_access"}, {},
             crop_classes),
      Fields("fitted", "unfitted", "None",
             {"climate_zone", "water_availability", "light_access", "crop"},
             {"yield_features"}, crop_classes),
      Fields("fitted", "fitted", "fitted",
             {"climate_zone", "water_availability", "light_access", "crop"},
             {"yield_features"}, crop_classes) }

\* lines 143-150: the input array of the classifier; budget_per_sqm is the
\* quotient of the pair
RecommendInput(farm_params, weather_data) ==
    RecommendCodes(farm_params, weather_data) \o
    << farm_params.area_size.num,
       <<farm_params.budget, farm_params.area_size.num>>,
       Get(weather_data, "temp", 20),
       Get(weather_data, "humidity", 60) >>

\* lines 204-213: the input array of the regressors
YieldInput(crop, farm_params, weather_data) ==
    << EncodeFeature("crop", crop),
       farm_params.area_size,
       _calculate_light_intensity(farm_params.light_access),
       _estimate_nutrients_level(farm_params.budget),
       _get_water_frequency(farm_params.water_availability),
       Get(weather_data, "temp", 20),
       Get(weather_data, "humidity", 60),
       400 >>

\* the input arrays the served calls build
RecommendQueries ==
    { RecommendInput(c.farm_params, c.weather_data) :
          c \in { d \in ServedCalls :
                      /\ d.op = "recommend_crops"
                      /\ RecommendFeaturesError(d.farm_params) = "none" } }

YieldQueries ==
    { YieldInput(c.crop, c.farm_params, c.weather_data) :
          c \in { d \in ServedCalls :
                      /\ d.op = "predict_yield"
                      /\ YieldFeaturesError(d.farm_params) = "none" } }

\* the leaves of the fitted tree the queries fall in: all samples of class
\* 0, or all of classes 0 and 1 with class 0 not the rarer
ServedLeaves ==
    { p \in ProbaOutcomes : p[1] + p[2] = LeafSamples /\ p[1] >= p[2] }

\* lines 155-171 for each such leaf, under one order of equal elements
TreeAnswers(tie) ==
    { Recommendations(p, TopIndices(p, tie)) : p \in ServedLeaves }

\* lines 225-226: the two predictions for one input array
ForestAnswers == { <<1, 80>>, <<36, 800>> }

IdleThread ==
    [at |-> "idle", call |-> NoCall, X |-> <<>>, caught |-> "none",
     result |-> NoRet]

\* the constructor has returned; the fitted models are some functions of
\* their input
ServingInit ==
    /\ pc = "ready"
    /\ \E s \in ConstructedStates :
         /\ crop_recommender = s.crop_recommender
         /\ yield_predictor = s.yield_predictor
         /\ growth_time_predictor = s.growth_time_predictor
         /\ label_encoders = s.label_encoders
         /\ scalers = s.scalers
         /\ crop_names = s.crop_names
    /\ call = NoCall
    /\ ret = NoRet
    /\ trace = NoTrace
    /\ confidence = NoConfidence
    /\ suitability = "none"
    /\ caller_args = NoArgs
    /\ tree \in IF crop_recommender = "fitted"
                THEN UNION { [RecommendQueries -> TreeAnswers(tie)] :
                                 tie \in TieOrders }
                ELSE {<<>>}
    /\ forest \in IF BothFitted
                  THEN [YieldQueries -> ForestAnswers] ELSE {<<>>}
    /\ threads = [t \in Threads |-> IdleThread]
    /\ scratch = <<>>
    /\ history = {}
    /\ RequestIdle
    /\ WeatherIdle
    /\ DataIdle

\* lines 115-150 and 181-215: the thread builds its input array, or the
\* building raises
Begin(t) ==
    /\ farming_ai_bound
    /\ threads[t].at \in {"idle", "returned"}
    /\ \E c \in ServedCalls :
         LET caught == IF c.op = "recommend_crops"
                       THEN RecommendFeaturesError(c.farm_params)
                       ELSE YieldFeaturesError(c.farm_params)
             X == IF caught # "none" THEN <<>>
                  ELSE IF c.op = "recommend_crops"
                       THEN RecommendInput(c.farm_params, c.weather_data)
                       ELSE YieldInput(c.crop, c.farm_params, c.weather_data)
         IN  /\ threads' = [threads EXCEPT ![t] =
                               [at |-> "encoded", call |-> c, X |-> X,
                                caught |-> caught, result |-> NoRet]]
             /\ scratch' = IF caught = "none" THEN X ELSE scratch
    /\ UNCHANGED <<pc, model_vars, call, ret, trace, confidence, suitability,
                   caller_args, tree, forest, history, weather_vars,
                   data_vars, request_vars>>

\* an input array kept on the instance: the one built last, by any thread
InputOfInstance(t) == scratch

\* X is a local of the call
InputOf(t) == threads[t].X

\* a regressor whose answer changes once predict_yield has been served
ForestAnswerDrifts(X) ==
    IF history = {} THEN forest[X]
    ELSE CHOOSE a \in ForestAnswers : a # forest[X]

\* lines 225-226: predict of the fitted regressors
ForestAnswer(X) == forest[X]

\* lines 155-171: predict_proba of the fitted tree, ranked
TreeAnswer(X) == tree[X]

\* lines 152-177, from the input array on
RecommendFinish(caught, X) ==
    IF caught # "none" THEN ListRet(_get_default_recommendations)
    ELSE IF crop_recommender = "None"
         THEN ListRet(_get_default_recommendations)
    ELSE IF PredictProbaError # "none"
         THEN ListRet(_get_default_recommendations)
    ELSE IF X \notin DOMAIN tree      \* not a row of the seven features:
         THEN ListRet(_get_default_recommendations)   \* ValueError, caught
    ELSE ListRet(TreeAnswer(X))

\* lines 217-239, from the input array on
PredictFinish(c, caught, X) ==
    LET err == IF caught # "none" THEN caught
               ELSE IF YieldTryError(c.farm_params) # "none"
                    THEN YieldTryError(c.farm_params)
               ELSE IF BothFitted /\ X \notin DOMAIN forest
                    THEN "ValueError"    \* not a row of the eight features
               ELSE "none"
    IN  IF err = "none"
        THEN IF BothFitted
             THEN EstRet(TrainedYieldPrediction(ForestAnswer(X)[1],
                             ForestAnswer(X)[2], c.farm_params.area_size.num))
             ELSE EstRet(_get_default_yield_prediction(c.crop,
                             c.farm_params.area_size.num))
        ELSE IF DefaultYieldError(c.farm_params) = "none"
             THEN EstRet(_get_default_yield_prediction(c.crop,
                             c.farm_params.area_size.num))
        ELSE RaiseRet(DefaultYieldError(c.farm_params))

\* what the thread's call returns
ResultOf(t) ==
    IF threads[t].call.op = "recommend_crops"
    THEN RecommendFinish(threads[t].caught, InputOf(t))
    ELSE PredictFinish(threads[t].call, threads[t].caught, InputOf(t))

\* the thread asks the models and returns
Finish(t) ==
    /\ threads[t].at = "encoded"
    /\ threads' = [threads EXCEPT ![t].at = "returned",
                                  ![t].result = ResultOf(t)]
    /\ UNCHANGED <<pc, model_vars, call, ret, trace, confidence, suitability,
                   caller_args, tree, forest, scratch, history, weather_vars,
                   data_vars, request_vars>>

\* the same step of a single thread, the first result of each predict_yield
\* call kept
FinishRecorded(t) ==
    /\ threads[t].at = "encoded"
    /\ threads' = [threads EXCEPT ![t].at = "returned",
                                  ![t].result = ResultOf(t)]
    /\ history' =
         IF \/ threads[t].call.op # "predict_yield"
            \/ \E h \in history : h[1] = threads[t].call
         THEN history
         ELSE history \cup {<<threads[t].call, ResultOf(t)>>}
    /\ UNCHANGED <<pc, model_vars, call, ret, trace, confidence, suitability,
                   caller_args, tree, forest, scratch, weather_vars,
                   data_vars, request_vars>>

ConcurrentNext == \E t \in Threads : Begin(t) \/ Finish(t)

\* request threads interleaved in any order
ConcurrentSpec == ServingInit /\ [][ConcurrentNext]_vars

SequentialNext == Begin("t1") \/ FinishRecorded("t1")

\* one call after another
SequentialSpec == ServingInit /\ [][SequentialNext]_vars

\* the result of the call when it runs alone: its own input array, then
\* the models
Alone(c) ==
    IF c.op = "recommend_crops"
    THEN RecommendFinish(RecommendFeaturesError(c.farm_params),
             IF RecommendFeaturesError(c.farm_params) # "none" THEN <<>>
             ELSE RecommendInput(c.farm_params, c.weather_data))
    ELSE PredictFinish(c, YieldFeaturesError(c.farm_params),
             IF YieldFeaturesError(c.farm_params) # "none" THEN <<>>
             ELSE YieldInput(c.crop, c.farm_params, c.weather_data))

\* C14: when recommend_crops / predict_yield calls on the shared instance
\* are interleaved in any order, each call returns the result it returns
\* when run alone, and no call waits for another: a thread inside a call
\* can always take its next step, and a thread outside can always start one.
C14_InterleavedCallsAsAlone ==
    \A t \in Threads :
        /\ threads[t].at = "returned" => threads[t].result = Alone(threads[t].call)
        /\ threads[t].at = "encoded" => ENABLED Finish(t)
        /\ threads[t].at \in {"idle", "returned"} => ENABLED Begin(t)

\* t1 built its input array, t2 then built another one and returned, and
\* t1 returned after it
C14_Witness ==
    /\ BothFitted
    /\ threads["t1"].at = "returned"
    /\ threads["t2"].at = "returned"
    /\ threads["t1"].call.op = "predict_yield"
    /\ threads["t2"].call.op = "predict_yield"
    /\ threads["t1"].call.crop # threads["t2"].call.crop
    /\ threads["t1"].result.kind = "est"
    /\ threads["t2"].result.kind = "est"
    /\ threads["t1"].result # threads["t2"].result
    /\ scratch = threads["t2"].X
    /\ scratch # threads["t1"].X

\* C15: within one process, predict_yield called again with the crop,
\* farm_params and weather_data of an earlier call returns what that call
\* returned, whatever calls were made in between.
C15_PredictYieldRepeats ==
    (threads["t1"].at = "returned" /\ threads["t1"].call.op = "predict_yield") =>
        \A h \in history :
            h[1] = threads["t1"].call => h[2] = threads["t1"].result

\* a trained prediction returned, after predict_yield calls for both crops
\* were recorded
C15_Witness ==
    /\ BothFitted
    /\ threads["t1"].at = "returned"
    /\ threads["t1"].call.op = "predict_yield"
    /\ threads["t1"].result.kind = "est"
    /\ threads["t1"].result.est.growth_time_days # 45
    /\ \E g, h \in history :
         /\ g[1] = threads["t1"].call
         /\ g[2] = threads["t1"].result
         /\ h[1].crop # g[1].crop

-----------------------------------------------------------------------------
(* predict_yield, lines 183-192: the features dict *)

\* light_access values: the three keys of light_map and two others
LightAccessArgs == {"natural", "artificial", "hybrid", "neon", ""}

\* water_availability values: the three keys of frequency_map and two others
WaterAvailabilityArgs == {"low", "medium", "high", "brackish", "Medium"}

\* budgets on both sides of the two thresholds
BudgetArgs == {-500, 0, 999, 1000, 1001, 4999, 5000, 5001, 100000}

\* lines 183-192
Features(crop, farm_params, weather_data) ==
    [crop |-> crop,
     area_size |-> farm_params.area_size,
     light_intensity |-> _calculate_light_intensity(farm_params.light_access),
     nutrients_level |-> _estimate_nutrients_level(farm_params.budget),
     water_frequency |-> _get_water_frequency(farm_params.water_availability),
     temperature |-> Get(weather_data, "temp", 20),
     humidity |-> Get(weather_data, "humidity", 60),
     co2_level |-> 400]

\* predict_yield up to line 192, for one farm_params
BuildFeatures ==
    /\ \E l \in LightAccessArgs, w \in WaterAvailabilityArgs, b \in BudgetArgs,
          wd \in WeatherData :
         LET farm_params == [area_size |-> Num(24), budget |-> b,
                             water_availability |-> w, light_access |-> l]
         IN  features' = [farm_params |-> farm_params,
                          dict |-> Features("Lettuce", farm_params, wd)]
    /\ UNCHANGED <<pc, model_vars, call, ret, trace, confidence, suitability,
                   caller_args, serving_vars, weather_vars, data_vars,
                   heap, plan, layout>>

FeaturesSpec == Init /\ [][BuildFeatures]_vars

\* C21: the features dict holds light_intensity 300 / 400 / 500 for
\* 'natural' / 'artificial' / 'hybrid' and 300 for any other light_access,
\* water_frequency 2 / 4 / 6 for 'low' / 'medium' / 'high' and 3 for any
\* other water_availability, and co2_level 400 whatever the inputs
C21_EnvironmentInputsFollowTables ==
    features # <<>> =>
        LET l == features.farm_params.light_access
            w == features.farm_params.water_availability
        IN  /\ features.dict.light_intensity =
                   IF l = "natural" THEN 300
                   ELSE IF l = "artificial" THEN 400
                   ELSE IF l = "hybrid" THEN 500 ELSE 300
            /\ features.dict.water_frequency =
                   IF w = "low" THEN 2
                   ELSE IF w = "medium" THEN 4
                   ELSE IF w = "high" THEN 6 ELSE 3
            /\ features.dict.co2_level = 400

\* a dict built from a light_access and a water_availability outside the
\* tables
C21_Witness ==
    /\ features # <<>>
    /\ features.farm_params.light_access = "neon"
    /\ features.farm_params.water_availability = "brackish"
    /\ features.dict.light_intensity = 300
    /\ features.dict.water_frequency = 3

\* the nutrients level the claim gives for a budget
NutrientsBand(f) ==
    LET b == f.farm_params.budget
    IN  f.dict.nutrients_level = IF b < 1000 THEN 5 ELSE IF b < 5000 THEN 7 ELSE 9

\* C22: nutrients_level is 5 for budget < 1000, 7 for 1000 <= budget < 5000
\* and 9 for budget >= 5000, so one of 5, 7, 9; and of two dicts built one
\* after the other, the one with the larger budget has the larger or equal
\* nutrients_level
C22_NutrientsLevelBandsMonotone ==
    [][ /\ NutrientsBand(features')
        /\ features'.dict.nutrients_level \in {5, 7, 9}
        /\ features # <<>> =>
             /\ features.farm_params.budget <= features'.farm_params.budget
                  => features.dict.nutrients_level <= features'.dict.nutrients_level
             /\ features.farm_params.budget >= features'.farm_params.budget
                  => features.dict.nutrients_level >= features'.dict.nutrients_level
      ]_vars

\* budgets exactly on the two thresholds
C22_Witness ==
    /\ features # <<>>
    /\ features.farm_params.budget \in {1000, 5000}
    /\ features.dict.nutrients_level = IF features.farm_params.budget = 1000 THEN 7 ELSE 9

\* C23: for every crop of the profile table, each positive sample has
\* budget_per_sqm >= the crop's min_budget_per_sqm and <= 1000, and
\* area_size >= the crop's min_area and <= 200.
C23_PositiveBudgetAndAreaWithinCeilings ==
    gen.appended = "positive" =>
        /\ sample.budget_per_sqm >= SampleProfile.min_budget_per_sqm * DrawSteps
        /\ sample.budget_per_sqm <= 1000 * DrawSteps
        /\ sample.area_size >= SampleProfile.min_area * DrawSteps
        /\ sample.area_size <= 200 * DrawSteps

\* C24: every yield sample, for every crop and every drawn environment, has
\* yield_kg_per_sqm >= 0.1 and growth_time_days >= 10, and its factors stay
\* within their clamps: light_factor in [0.3, 2.0], water_factor in
\* [0.4, 1.8], temp_factor >= 0.5, humidity_factor >= 0.6, co2_factor <= 1.5,
\* temp_growth_factor in [0.7, 1.3], light_growth_factor in [0.8, 1.2],
\* nutrient_growth_factor in [0.9, 1.1].
C24_YieldSampleFloorsAndClamps ==
    gen.appended = "yield" =>
        /\ sample.yield_kg_per_sqm >= 10
        /\ sample.growth_time_days >= 10
        /\ factors.light_factor >= 300 /\ factors.light_factor <= 2000
        /\ factors.water_factor >= 400 /\ factors.water_factor <= 1800
        /\ factors.temp_factor >= 500
        /\ factors.humidity_factor >= 600
        /\ factors.co2_factor <= 1500
        /\ factors.temp_growth_factor >= 700 /\ factors.temp_growth_factor <= 1300
        /\ factors.light_growth_factor >= 800 /\ factors.light_growth_factor <= 1200
        /\ factors.nutrient_growth_factor >= 900
        /\ factors.nutrient_growth_factor <= 1100

\* a sample at the low end of every environment range, where the caps of
\* the light, water, temperature and humidity factors and the floor of the
\* yield all apply
C24_Witness ==
    /\ gen.appended = "yield"
    /\ sample.light_intensity = 200 * DrawSteps
    /\ factors.light_factor = 300
    /\ factors.water_factor = 400
    /\ factors.temp_factor = 500
    /\ factors.humidity_factor = 600
    /\ factors.temp_growth_factor = 1300
    /\ factors.light_growth_factor = 1200
    /\ factors.nutrient_growth_factor = 1100
    /\ sample.yield_kg_per_sqm = 10

\* farm_params f and g differ in the one feature only, where f holds a value
\* the encoder never saw and g the value the encoder numbered 0
UnseenTwin(f, g, feature) ==
    /\ DOMAIN f = DOMAIN g
    /\ feature \in DOMAIN f
    /\ \A k \in DOMAIN f \ {feature} : f[k] = g[k]
    /\ ~Seen(EncoderClasses(feature), f[feature])
    /\ g[feature] = EncoderClasses(feature)[1]

\* C25: with the classifier trained, a recommend_crops call whose
\* water_availability (or light_access) was never seen in training returns
\* the list that the call with the encoder's class 0 of that feature in its
\* place returns, all other inputs equal.
C25_UnseenCategoryAsClassZero ==
    \A t \in Threads, o \in Threads :
        ( /\ crop_recommender = "fitted"
          /\ threads[t].at = "returned" /\ threads[o].at = "returned"
          /\ threads[t].call.op = "recommend_crops"
          /\ threads[o].call.op = "recommend_crops"
          /\ threads[t].call.weather_data = threads[o].call.weather_data
          /\ \E feature \in {"water_availability", "light_access"} :
               UnseenTwin(threads[t].call.farm_params,
                          threads[o].call.farm_params, feature) )
        => threads[t].result = threads[o].result

\* the unseen water level and 'high' served by a tree that answers the
\* 'medium' farm differently
C25_Witness ==
    /\ crop_recommender = "fitted"
    /\ threads["t1"].at = "returned" /\ threads["t2"].at = "returned"
    /\ threads["t1"].call = Call("recommend_crops", "", UnseenWaterFarm, FullWeather)
    /\ threads["t2"].call = Call("recommend_crops", "", HighWaterFarm, FullWeather)
    /\ threads["t1"].result.kind = "list"
    /\ threads["t1"].result = threads["t2"].result
    /\ threads["t1"].result
           # RecommendFinish("none", RecommendInput(WellFormedFarm, FullWeather))

\* the statements of _train_yield_predictor, lines 86-109
RegressorPositions == {"encode_crop", "fit_scaler", "fit_yield", "fit_growth"}

\* what _train_yield_predictor stores has not been stored
RegressorsUntouched ==
    /\ yield_predictor = "None"
    /\ growth_time_predictor = "None"
    /\ "crop" \notin label_encoders
    /\ scalers = {}

\* the last call was predict_yield and left the regressors out: it took the
\* else branch or the handler, and what it returned is the static default
PredictServedStatic ==
    /\ trace.path \in {"static_else", "static_except", "raised"}
    /\ ret.kind = "est" =>
           ret.est = _get_default_yield_prediction(call.crop, Area)

\* C26: training runs classifier first, regressors second, in one guarded
\* block.  The regressors are trained only after the classifier's training
\* returned; if the classifier's training raised, nothing of the regressors'
\* training has run, and afterwards recommend_crops answers with the static
\* list and predict_yield with its static fallback; if only the regressors'
\* training raised, the classifier stays trained: recommend_crops answers
\* from the classifier and predict_yield alone with its static fallback.
C26_ClassifierThenRegressors ==
    /\ pc \in RegressorPositions => crop_recommender = "fitted"
    /\ crop_recommender # "fitted" => RegressorsUntouched
    /\ (pc = "ready" /\ crop_recommender # "fitted") =>
           /\ IsRecommend =>
                  /\ trace.path \in {"static_else", "static_except"}
                  /\ ret = ListRet(_get_default_recommendations)
           /\ IsPredict => PredictServedStatic
    /\ (pc = "ready" /\ crop_recommender = "fitted" /\ ~BothFitted) =>
           /\ (IsRecommend /\ FeaturesBuilt) => trace.path = "classifier"
           /\ IsPredict => PredictServedStatic

\* the growth-time regressor's fit raised after the classifier and the
\* yield regressor were fitted, and predict_yield was then called
C26_Witness ==
    /\ pc = "ready"
    /\ crop_recommender = "fitted"
    /\ yield_predictor = "fitted"
    /\ growth_time_predictor = "unfitted"
    /\ IsPredict
    /\ trace.path = "static_except"
    /\ ret.kind = "est"
    /\ ret.est = _get_default_yield_prediction(call.crop, Area)

\* the keys of the two tables of src/data/crop_data.py
SuitabilityProfileCrops == { crop_profiles[i].crop : i \in 1..Len(crop_profiles) }
YieldProfileCrops == { yield_profiles[i].crop : i \in 1..Len(yield_profiles) }

\* C27: the crop names of the suitability profile table are the crop names
\* of the yield profile table; so every crop the trained classifier puts in
\* a recommendation is a class of the estimator's crop encoder (its code is
\* its own, not the code 0 of an unknown crop), and every crop of the static
\* recommendation list has its own entry in the static default-yield table.
C27_RecommendedCropsKnownToEstimator ==
    /\ SuitabilityProfileCrops = YieldProfileCrops
    /\ \A i \in 1..Len(crop_names) : crop_names[i] \in YieldProfileCrops
    /\ (IsRecommend /\ trace.path = "classifier") =>
           \A k \in 1..Len(ret.recs) :
               /\ ret.recs[k].crop \in SuitabilityProfileCrops
               /\ ret.recs[k].crop \in YieldProfileCrops
               /\ Seen(EncoderClasses("crop"), ret.recs[k].crop)
    /\ (IsRecommend /\ trace.path # "classifier") =>
           \A k \in 1..Len(ret.recs) :
               ret.recs[k].crop \in base_yield_keys

\* everything fitted and a recommendation list built by the classifier
C27_Witness ==
    /\ pc = "ready"
    /\ BothFitted
    /\ "crop" \in label_encoders
    /\ IsRecommend
    /\ trace.path = "classifier"
    /\ Len(ret.recs) = 5
    /\ \A k \in 1..5 : ret.recs[k].crop \in YieldProfileCrops

\* C28: sample generation never fails on an empty choice or an inverted
\* range: the row of the profile table a loop is at leaves a climate zone
\* outside preferred_climate and a water level outside water_needs, has
\* temp_range min - 2 >= 5, temp_range max + 3 <= 35 and
\* humidity_range min <= humidity_range max; so no turn of the loops raises
\* and the loops run over every row, 50 positive and 15 negative turns per
\* row and 200 global turns.
C28_SampleGenerationNeverFails ==
    /\ gen.phase \in {"positive", "negative", "global", "yield", "returned"}
    /\ gen.phase \in {"positive", "negative"} =>
           LET profile == crop_profiles[gen.i]
           IN  /\ NegativeClimates(profile) # <<>>
               /\ NegativeWaters(profile) # <<>>
               /\ profile.temp_range[1] - 2 >= 5
               /\ profile.temp_range[2] + 3 <= 35
               /\ profile.humidity_range[1] <= profile.humidity_range[2]
    /\ gen.phase = "positive" =>
           /\ gen.k < 50
           /\ gen.k = 0 => gen.appended = IF gen.i = 1 THEN "none" ELSE "negative"
    /\ gen.phase = "negative" =>
           /\ gen.k < 15
           /\ gen.k = 0 => gen.appended = "positive"
    /\ gen.phase = "global" =>
           /\ gen.k < 200
           /\ gen.k = 0 => gen.appended = "negative" /\ gen.of = Len(crop_profiles)
    /\ (gen.phase = "yield" /\ gen.i = 1 /\ gen.k = 0) => gen.appended = "global"

\* get_training_data returned: the last yield sample of the last crop was
\* appended, after all suitability samples
C28_Witness ==
    /\ gen.phase = "returned"
    /\ gen.appended = "yield"
    /\ gen.of = Len(yield_profiles)

-----------------------------------------------------------------------------
(* The recommendation lists in the request handlers, src/routes.py.  A dict *)
(* is an object: heap[r] is what the dict with reference r holds now, and a *)
(* list is the sequence of the references of its entries.                   *)

\* the requests served in one run of the model
MaxRequests == 3

NoPlan == [at |-> "idle", route |-> "", refs |-> <<>>, built |-> <<>>]

\* the instance is constructed, no request has been served
PlanInit ==
    /\ pc = "ready"
    /\ \E s \in ConstructedStates :
         /\ crop_recommender = s.crop_recommender
         /\ yield_predictor = s.yield_predictor
         /\ growth_time_predictor = s.growth_time_predictor
         /\ label_encoders = s.label_encoders
         /\ scalers = s.scalers
         /\ crop_names = s.crop_names
    /\ call = NoCall
    /\ ret = NoRet
    /\ trace = NoTrace
    /\ confidence = NoConfidence
    /\ suitability = "none"
    /\ caller_args = NoArgs
    /\ ServingIdle /\ WeatherIdle /\ DataIdle
    /\ features = <<>>
    /\ layout = <<>>
    /\ heap = <<>>
    /\ plan = [t \in Threads |-> NoPlan]

\* predict_proba(X)[0] at the leaves the requests fall in: all samples of
\* class 0, or one of them of class 1
PlanLeaves ==
    { [i \in 1..NumClasses |->
          IF i = 1 THEN LeafSamples - j ELSE IF i = 2 THEN j ELSE 0] :
      j \in {0, 1} }

\* ml_models.py lines 161-173 and 298-305: the lists a call can build, the
\* static one (from the else branch or the handler) and, with a fitted
\* classifier, the ranked ones
BuiltLists ==
    {_get_default_recommendations} \cup
        (IF crop_recommender = "fitted"
         THEN { Recommendations(p, TopIndices(p, "low_first")) : p \in PlanLeaves }
         ELSE {})

\* a list kept on the instance and handed out by every call: the
\* references of the entries built first
ReturnedRefsShared(h, built) == [k \in 1..Len(built) |-> k]

\* the list returned holds the dicts the call has just built: `[]` filled
\* by append in lines 161-169, a list display of dict displays in 299-305
ReturnedRefs(h, built) == [k \in 1..Len(built) |-> Len(h) + k]

\* routes.py line 49 (create_plan) and line 229 (api_crop_recommendations):
\* recommend_crops builds its entries and returns the list
PlanRecommend(t) ==
    /\ farming_ai_bound
    /\ plan[t].at \in {"idle", "done"}
    /\ Len(heap) + 5 <= 5 * MaxRequests
    /\ \E built \in BuiltLists, route \in {"create_plan", "api_crop_recommendations"} :
         /\ heap' = heap \o built
         /\ plan' = [plan EXCEPT ![t] =
                        [at |-> "recommended", route |-> route,
                         refs |-> ReturnedRefs(heap, built), built |-> built]]
    /\ UNCHANGED <<pc, model_vars, call, ret, trace, confidence, suitability,
                   caller_args, serving_vars, weather_vars, data_vars,
                   features, layout>>

\* what predict_yield returns to create_plan for the crop (area 3.0), the
\* regressors answering a when both are fitted
PlanYieldData(crop, a) ==
    IF BothFitted THEN TrainedYieldPrediction(a[1], a[2], 24)
    ELSE _get_default_yield_prediction(crop, 24)

RECURSIVE AttachYieldData(_, _, _)
\* routes.py lines 52-56: crop['yield_data'] = yield_data for the first
\* entries of the list, ys[k] being the k-th predict_yield result
AttachYieldData(h, refs, ys) ==
    IF ys = <<>> THEN h
    ELSE LET k == Len(ys)
             rest == AttachYieldData(h, refs, SubSeq(ys, 1, k - 1))
         IN  [rest EXCEPT ![refs[k]] = [yield_data |-> ys[k]] @@ rest[refs[k]]]

\* routes.py lines 52-56, the loop over crop_recommendations[:3]
PlanAttach(t) ==
    /\ plan[t].at = "recommended"
    /\ plan[t].route = "create_plan"
    /\ \E a \in ForestAnswers :
         LET ys == [k \in 1..3 |->
                      PlanYieldData(heap[plan[t].refs[k]].crop, a)]
         IN  heap' = AttachYieldData(heap, plan[t].refs, ys)
    /\ plan' = [plan EXCEPT ![t].at = "done"]
    /\ UNCHANGED <<pc, model_vars, call, ret, trace, confidence, suitability,
                   caller_args, serving_vars, weather_vars, data_vars,
                   features, layout>>

\* routes.py lines 231-235: the list is serialised into the response
PlanRespond(t) ==
    /\ plan[t].at = "recommended"
    /\ plan[t].route = "api_crop_recommendations"
    /\ plan' = [plan EXCEPT ![t].at = "done"]
    /\ UNCHANGED <<pc, model_vars, call, ret, trace, confidence, suitability,
                   caller_args, serving_vars, weather_vars, data_vars,
                   features, heap, layout>>

PlanNext == \E t \in Threads : PlanRecommend(t) \/ PlanAttach(t) \/ PlanRespond(t)

\* request threads interleaved in any order
PlanSpec == PlanInit /\ [][PlanNext]_vars

\* C29: a list that recommend_crops has returned and its caller has not yet
\* touched holds, entry by entry, exactly the dicts the call built, without
\* a 'yield_data' field, whatever create_plan has added to the entries of
\* lists returned before or to those of another request; and no dict is an
\* entry of two lists.
C29_RecommendationsFreshlyBuilt ==
    \A t \in Threads :
        /\ plan[t].at = "recommended" =>
               /\ Len(plan[t].refs) = Len(plan[t].built)
               /\ \A k \in 1..Len(plan[t].refs) :
                      /\ heap[plan[t].refs[k]] = plan[t].built[k]
                      /\ "yield_data" \notin DOMAIN heap[plan[t].refs[k]]
        /\ \A o \in Threads \ {t} :
               \A k \in 1..Len(plan[t].refs), j \in 1..Len(plan[o].refs) :
                   plan[t].refs[k] # plan[o].refs[j]

\* t2 has just been handed the static list while the first three dicts of
\* the static list built for t1, and those of an earlier request, carry
\* yield_data
C29_Witness ==
    /\ plan["t1"].at = "done"
    /\ plan["t1"].route = "create_plan"
    /\ plan["t1"].built = _get_default_recommendations
    /\ "yield_data" \in DOMAIN heap[plan["t1"].refs[1]]
    /\ "yield_data" \in DOMAIN heap[1]
    /\ plan["t1"].refs[1] # 1
    /\ plan["t2"].at = "recommended"
    /\ plan["t2"].built = _get_default_recommendations
    /\ plan["t2"].refs[1] > plan["t1"].refs[1]

-----------------------------------------------------------------------------
(* generate_layout_suggestions, src/routes.py lines 241-270.  area_size and *)
(* area_sqm are in hundredths of a square metre, confidence in hundredths   *)
(* of a percent, percentage in tenths.  Of the layout the model keeps       *)
(* total_area and the area_sqm and percentage of crop_allocation.           *)

\* area_size: 3.0 and 50.0
LayoutAreas == {300, 5000}

\* the entries of a list: a confidence of 0, 50, 85 or 100 percent, or none
LayoutEntries(crop) ==
    { [crop |-> crop, confidence |-> c] : c \in {0, 5000, 8500, 10000} }
        \cup { [crop |-> crop] }

\* lists of one to three entries with different crops, as recommend_crops
\* returns them and create_plan cuts them
LayoutRecommendations ==
    { <<a>> : a \in LayoutEntries("Lettuce") } \cup
    { <<a, b>> : a \in LayoutEntries("Lettuce"), b \in LayoutEntries("Spinach") } \cup
    { <<a, b, c>> : a \in LayoutEntries("Lettuce"), b \in LayoutEntries("Spinach"),
                    c \in LayoutEntries("Kale") }

\* lines 258-267: base_area_per_crop * (0.8 + 0.4 * confidence) is
\* area_size * (20000 + confidence) / (25000 * total_crops) in the model's
\* units; the entry stored under the crop's name
CropAllocation(area_size, total_crops, crop) ==
    LET crop_confidence == Get(crop, "confidence", 5000)
    IN  [crop |-> crop.crop,
         area_sqm |-> RoundHalfEven(area_size * (20000 + crop_confidence),
                                    25000 * total_crops),
         percentage |-> RoundHalfEven(20000 + crop_confidence, 25 * total_crops)]

\* lines 244-270
generate_layout_suggestions(area_size, crop_recommendations) ==
    LET total_crops == Len(crop_recommendations)
    IN  [total_area |-> area_size,
         crop_recommendations |-> crop_recommendations,
         crop_allocation |->
             [k \in 1..total_crops |->
                 CropAllocation(area_size, total_crops, crop_recommendations[k])]]

\* create_plan line 65: the layout of one plan
GenerateLayoutSuggestions ==
    /\ \E area_size \in LayoutAreas, recs \in LayoutRecommendations :
         layout' = generate_layout_suggestions(area_size, recs)
    /\ UNCHANGED <<pc, model_vars, call, ret, trace, confidence, suitability,
                   caller_args, serving_vars, weather_vars, data_vars,
                   features, heap, plan>>

LayoutSpec == Init /\ [][GenerateLayoutSuggestions]_vars

RECURSIVE SumField(_, _, _)
SumField(s, field, n) == IF n = 0 THEN 0 ELSE s[n][field] + SumField(s, field, n - 1)

\* C30: for every area_size > 0 and every non-empty list of recommendations
\* with confidences in 0..100, the area_sqm values of crop_allocation sum to
\* at most total_area and its percentage values to at most 100.
C30_AllocationWithinArea ==
    (layout # <<>> /\ layout.total_area > 0 /\ layout.crop_allocation # <<>>) =>
        /\ SumField(layout.crop_allocation, "area_sqm",
                    Len(layout.crop_allocation)) <= layout.total_area
        /\ SumField(layout.crop_allocation, "percentage",
                    Len(layout.crop_allocation)) <= 1000

=============================================================================
